---- MODULE Spec2Model ----
(***************************************************************************)
(* The follow-up execution queue of the Zionic follow-up server: poll      *)
(* ticks (executeFollowUps), orphan detection                              *)
(* (findAndCreateOrphanedFollowUps) and the per-item execution driver      *)
(* (processFollowUp), with the rows of follow_up_queue as shared state.    *)
(*                                                                         *)
(* Every await of the source that reads or writes shared state (a queue    *)
(* row, the gateway, the messages table) is one atomic action; the awaits  *)
(* in between that only read data no action changes are taken together     *)
(* with the next such action.  Time is counted in half minutes.  There is  *)
(* one conversation, whose agent has one active rule.                      *)
(*                                                                         *)
(* Spec has runs that overlap, as the cron timer allows; SpecSeq has one    *)
(* run at a time and an environment in which every call can fail.          *)
(* SpecBatch is one run over a list of two items; SpecProcessor has the     *)
(* guards of the follow-up processor; SpecHours is the business-hours      *)
(* deferral in hours of the day and company timezones; SpecGenerate is the  *)
(* message generation with its credit gate, provider calls and debit.      *)
(* SpecCredits is one call of checkCreditsBalance; SpecThreads is the       *)
(* thread of the conversation with two executions asking for it.            *)
(* SpecRun is one call of executeOpenAIRun; SpecPersonalize is one          *)
(* appointment reminder and one follow-up through their personalization;   *)
(* SpecSubstitute is the substitution of template variables; SpecUsage is   *)
(* one call of processOpenAICreditsUsage; SpecPending is the processor's    *)
(* getPendingFollowUps with the rows it returns being processed.            *)
(***************************************************************************)
EXTENDS Integers, Sequences, FiniteSets, TLC

\* ---------------------------------------------------------------- bounds
\* Rows that can exist in follow_up_queue (inserts beyond it fail).
MaxRows == 2
\* Last instant of the clock, in half minutes.
MaxNow == 3
\* The per-item counter of accepted gateway sends saturates here.
SendCap == 2
\* Runs of executeFollowUps that are started (stats.totalExecutions stops here).
MaxExecutions == 3
\* stats.totalErrors saturates here.
ErrorCap == 2
\* The longest template, in words.
MaxLen == 2
\* The rows of the queue that the processor's query looks at.
MaxPendingRows == 2
\* config.maxFollowUpsPerExecution as the processor's caller sets it.
PullLimit == 1
\* stats.totalFollowUpsSent saturates here.
MaxSentTotal == 2
\* The largest balance of company_credits and the largest amount asked for.
MaxBalance == 5
\* Threads the provider creates for the conversation (creation stops here).
MaxThreads == 3

\* ------------------------------------------------------ program constants
\* CONFIG.maxFollowUpsPerExecution
maxFollowUpsPerExecution == 50
\* const delayMinutes = rule.delay_minutes || 15
defaultDelayMinutes == 15

\* Executions of executeFollowUps that can be in progress at the same time:
\* the cron timer fires every minute whether or not the previous run ended.
Ticks == {1, 2}

\* agent.follow_up_rules of the one conversation's agent, in array order.
\* A missing (falsy) number is written 0, as the || defaults of the source
\* read it.
followUpRules ==
  << [id |-> "r1", is_active |-> TRUE, delay_minutes |-> 1, max_attempts |-> 2,
      exclude_business_hours |-> TRUE],
     [id |-> "r2", is_active |-> FALSE, delay_minutes |-> 0, max_attempts |-> 0,
      exclude_business_hours |-> FALSE] >>

RuleIds == {followUpRules[k].id : k \in 1..Len(followUpRules)}

VARIABLES
  queue,            \* follow_up_queue: the rows, in insertion order (id = index)
  now,              \* the clock, in half minutes
  last_message_at,  \* sent_at of the newest row of messages of the conversation
  accepted,         \* per row id: messages the gateway accepted for it
  exec,             \* per tick: the locals of executeFollowUps and its callees
  totalExecutions,  \* stats.totalExecutions
  inBusinessHours,  \* whether the server's clock lies in CONFIG.businessHours
  faults,           \* the calls that can fail while the service runs
  gen,              \* the call of the message generation that is in progress
  totalErrors,      \* stats.totalErrors
  credits,          \* the call of checkCreditsBalance that is in progress
  threads,          \* the conversation's cached thread, the provider's
                    \* threads, and the calls of getOrCreateOpenAIThread
  run,              \* the call of executeOpenAIRun(WithModel) that is in progress
  totalFollowUpsSent, \* stats.totalFollowUpsSent
  reminder,         \* the row of appointment_reminder_queue and the call of
                    \* processAppointmentReminder for it
  creditsUsage,     \* the call of processOpenAICreditsUsage that is in progress
  pending           \* the queue as getPendingFollowUps of the processor sees
                    \* it, and its call

vars == <<queue, now, last_message_at, accepted, exec, totalExecutions, inBusinessHours,
          faults, gen, totalErrors, credits, threads, run, totalFollowUpsSent, reminder, creditsUsage, pending>>

\* ------------------------------------------------------------- helpers
Min(a, b) == IF a <= b THEN a ELSE b

\* x || d of JavaScript, for a number
OrDefault(x, d) == IF x = 0 THEN d ELSE x

\* minutes -> half minutes
HalfMinutes(m) == m + m

\* Math.round(h / 2) for a number of half minutes h >= 0 (x.5 rounds up)
RoundMinutes(h) == (h + 1) \div 2

Ids == 1..Len(queue)

NoItem == [id |-> 0, rule |-> "none", attempts |-> 0, max_attempts |-> 0]

\* The fields of a pulled or created row that processFollowUp reads from its
\* argument.
Snapshot(i) ==
  [id |-> i, rule |-> queue[i].rule, attempts |-> queue[i].attempts,
   max_attempts |-> queue[i].max_attempts]

NoReturn == [success |-> FALSE, skipped |-> FALSE, deferred |-> FALSE, reason |-> "none"]

\* The columns of a row of conversations that the processor reads: an AI
\* agent is set, ai_enabled is not false, assigned_to is set,
\* metadata.follow_up_paused is true.
Conversations ==
  [ai_agent_id : BOOLEAN, ai_enabled : BOOLEAN, assigned_to : BOOLEAN,
   follow_up_paused : BOOLEAN]

NoConversation ==
  [ai_agent_id |-> FALSE, ai_enabled |-> FALSE, assigned_to |-> FALSE,
   follow_up_paused |-> FALSE]

IdleExec ==
  [pc |-> "idle", allFollowUps |-> <<>>, orphanedFollowUps |-> <<>>, k |-> 0,
   detNow |-> 0, detLast |-> 0, followUp |-> NoItem, ret |-> NoReturn,
   error |-> "none", finalMessage |-> "none", generated |-> FALSE, sent |-> FALSE,
   logged |-> FALSE, conversation |-> NoConversation, timezone |-> 0,
   pullError |-> FALSE, failed |-> 0, escaped |-> FALSE, instance |-> "none",
   successful |-> 0]

\* No call of checkCreditsBalance in progress.
NoCredits == [pc |-> "none"]

\* No call of getOrCreateOpenAIThread in progress.
NoThreads == [pc |-> "none"]

\* No call of executeOpenAIRun or executeOpenAIRunWithModel in progress.
NoRun == [pc |-> "none"]

\* No call of processAppointmentReminder in progress.
NoReminder == [pc |-> "none"]

\* No call of processOpenAICreditsUsage in progress.
NoUsage == [pc |-> "none"]

\* No call of the processor's getPendingFollowUps in progress.
NoPending == [pc |-> "none"]

\* No generation call in progress.
NoGen ==
  [pc |-> "none", variant |-> "none", template |-> <<>>, first_name |-> <<>>,
   events |-> <<>>, usage |-> FALSE, message |-> "none", notified |-> "none",
   debited |-> "none", gate |-> "none", result |-> <<>>]

\* ---------------------------------------------------------------- Init
\* The calls of the source whose error or empty result the code tests for.
Calls == {"pull", "conversations", "existing", "insert", "status", "credits", "context",
          "agent", "assistant", "instance", "send", "sent_write", "message", "log",
          "retry_write", "thread_read", "thread_create", "thread_save"}

\* The outcomes of a call: it succeeds, or it fails where it can.
Fails(call) == IF call \in faults THEN BOOLEAN ELSE {FALSE}

\* The row the rule trigger created for rule r1 when the conversation went
\* quiet.
TriggerRow ==
  [rule |-> "r1", status |-> "pending", attempts |-> 0, max_attempts |-> 2,
   scheduled_at |-> 2, execution_error |-> "none", reason |-> "none",
   created_by |-> "trigger", minutes_late |-> 0, executed |-> FALSE,
   ai_generated_message |-> "none"]

\* The same row after it used up its attempts and was put back to pending by
\* hand: the case the max-attempts check of processFollowUp is written for.
RequeuedRow == [TriggerRow EXCEPT !.attempts = 2]

\* The service starts half a minute after the conversation's last message,
\* the queue empty or with one of these rows.
Start ==
  /\ queue \in {<<>>, <<TriggerRow>>, <<RequeuedRow>>}
  /\ now = 1
  /\ last_message_at = 0
  /\ accepted = [i \in 1..MaxRows |-> 0]
  /\ exec = [t \in Ticks |-> IdleExec]
  /\ totalExecutions = 0
  /\ gen = NoGen
  /\ totalErrors = 0
  /\ credits = NoCredits
  /\ threads = NoThreads
  /\ pending = NoPending
  /\ creditsUsage = NoUsage
  /\ reminder = NoReminder
  /\ totalFollowUpsSent = 0
  /\ run = NoRun

\* The horizon of the clock is a minute and a half: it lies inside business
\* hours or outside them as a whole.
\* Any call can fail, or none.
Init == Start /\ inBusinessHours \in BOOLEAN /\ faults \in {Calls, {}}

\* The row the trigger created for rule r2 while that rule was still active.
OtherRuleRow == [TriggerRow EXCEPT !.rule = "r2"]

\* Two rows fall due together, so that a run pulls a list of two items; the
\* service has run before with nothing to do, and any call can fail.
InitBatch ==
  /\ queue \in {<<TriggerRow, OtherRuleRow>>, <<RequeuedRow, OtherRuleRow>>}
  /\ now = 1
  /\ last_message_at = 0
  /\ accepted = [i \in 1..MaxRows |-> 0]
  /\ exec = [t \in Ticks |-> IdleExec]
  /\ totalExecutions = MaxExecutions - 1
  /\ gen = NoGen
  /\ totalErrors = 0
  /\ credits = NoCredits
  /\ threads = NoThreads
  /\ pending = NoPending
  /\ creditsUsage = NoUsage
  /\ reminder = NoReminder
  /\ totalFollowUpsSent = 0
  /\ run = NoRun
  /\ inBusinessHours \in BOOLEAN
  /\ faults = Calls

\* A run that pulled the trigger's row a moment before the row was cancelled
\* from outside (the guards of the follow-up processor write this status).
PulledThenCancelled ==
  /\ queue = <<[TriggerRow EXCEPT !.status = "cancelled", !.reason = "assigned_to_human"]>>
  /\ now = 2
  /\ last_message_at = 0
  /\ accepted = [i \in 1..MaxRows |-> 0]
  /\ exec = [t \in Ticks |-> IF t = 1
                THEN [IdleExec EXCEPT !.pc = "next", !.allFollowUps =
                        <<[id |-> 1, rule |-> "r1", attempts |-> 0, max_attempts |-> 2]>>]
                ELSE IdleExec]
  /\ totalExecutions = 1
  /\ gen = NoGen
  /\ totalErrors = 0
  /\ credits = NoCredits
  /\ threads = NoThreads
  /\ pending = NoPending
  /\ creditsUsage = NoUsage
  /\ reminder = NoReminder
  /\ totalFollowUpsSent = 0
  /\ run = NoRun

\* The service during business hours, with a gateway that can refuse a
\* message and everything else in order.
InitOpen ==
  /\ Start \/ PulledThenCancelled
  /\ inBusinessHours = TRUE
  /\ faults = {"send"}

\* ------------------------------------------------------ the queue table
RowsFor(r) == {i \in Ids : queue[i].rule = r}

SentFor(r) == {i \in Ids : queue[i].rule = r /\ queue[i].status = "sent"}

\* update ... .eq('id', i): the named fields of row i are overwritten
Update(i, fields) ==
  [queue EXCEPT ![i] = [f \in DOMAIN queue[i] |->
     IF f \in DOMAIN fields THEN fields[f] ELSE queue[i][f]]]

\* .single(): the row when the filter matches exactly one row; otherwise no
\* data and error PGRST116 (no row, or more than one row)
Single(S) ==
  IF Cardinality(S) = 1
    THEN [data |-> CHOOSE i \in S : TRUE, error |-> "none"]
    ELSE [data |-> 0, error |-> "PGRST116"]

\* order('scheduled_at', { ascending: true }), ties in insertion order
RECURSIVE OrderBySchedule(_)
OrderBySchedule(S) ==
  IF S = {} THEN <<>>
  ELSE LET first == CHOOSE i \in S : \A j \in S :
                      \/ queue[i].scheduled_at < queue[j].scheduled_at
                      \/ queue[i].scheduled_at = queue[j].scheduled_at /\ i <= j
       IN <<Snapshot(first)>> \o OrderBySchedule(S \ {first})

\* status = 'pending' and scheduled_at <= now, oldest first, at most the
\* per-tick limit
DuePending ==
  LET due == OrderBySchedule({i \in Ids : queue[i].status = "pending"
                                        /\ queue[i].scheduled_at <= now})
  IN SubSeq(due, 1, Min(Len(due), maxFollowUpsPerExecution))

\* ----------------------------------------------------- tick-local state
Set(t, fields) ==
  [exec EXCEPT ![t] = [f \in DOMAIN exec[t] |->
     IF f \in DOMAIN fields THEN fields[f] ELSE exec[t][f]]]

At(t, label) == exec[t].pc = label

\* ------------------------------------------------------------- the clock
\* The clock is read by the pull, by the start of detection and by the
\* insert into messages; an advance anywhere else gives the same readings as
\* one put off until a run stands before one of these reads.
ReadsClock(t) ==
  \/ At(t, "idle") /\ totalExecutions < MaxExecutions
  \/ At(t, "detect")
  \/ At(t, "record")

Advance ==
  /\ now < MaxNow
  /\ \E t \in Ticks : ReadsClock(t)
  /\ now' = now + 1
  /\ UNCHANGED <<queue, last_message_at, accepted, exec, totalExecutions, inBusinessHours, faults, gen, totalErrors, credits, threads, run, totalFollowUpsSent, reminder, creditsUsage, pending>>

\* ------------------------------------------------------ executeFollowUps
\* cron.schedule('*/1 * * * *', ...) and the immediate run of initialize: a
\* run starts whether or not another one is still in progress (it is given
\* the first free place of Ticks), and begins
\* with const pendingFollowUps = await getPendingFollowUps(): the pull, or
\* the empty list when the query fails.
Fire(t) ==
  /\ At(t, "idle")
  /\ \A u \in Ticks : u < t => ~At(u, "idle")
  /\ totalExecutions < MaxExecutions
  /\ totalExecutions' = totalExecutions + 1
  /\ \E failed \in Fails("pull") :
       exec' = [exec EXCEPT ![t] = [IdleExec EXCEPT !.pc = "detect",
                  !.pullError = failed,
                  !.allFollowUps = IF failed THEN <<>> ELSE DuePending]]
  /\ UNCHANGED <<queue, now, last_message_at, accepted, inBusinessHours, faults, gen, totalErrors, credits, threads, run, totalFollowUpsSent, reminder, creditsUsage, pending>>

\* -------------------------------------- findAndCreateOrphanedFollowUps
\* The delay test as it would read with <= for <: a rule is passed over when
\* exactly its delay has gone by.
DelayElapsedStrict(rule, at, last) ==
  ~(at - last <= HalfMinutes(OrDefault(rule.delay_minutes, defaultDelayMinutes)))

\* if (minutesSinceLastMessage < delayMinutes) continue, with
\* delayMinutes = rule.delay_minutes || 15
DelayElapsed(rule, at, last) ==
  ~(at - last < HalfMinutes(OrDefault(rule.delay_minutes, defaultDelayMinutes)))

\* The existence read as it would be with .eq('status', 'pending') added.
ExistingPendingFollowUp(r) ==
  Single({i \in RowsFor(r) : queue[i].status = "pending"}).data # 0

\* if (existingFollowUp) continue: the .single() read of the rows of the
\* conversation and rule, whatever their status
ExistingFollowUp(r) == Single(RowsFor(r)).data # 0

\* The row inserted for an orphan.
OrphanRow(rule, at, last) ==
  [rule |-> rule.id, status |-> "pending", attempts |-> 0,
   max_attempts |-> OrDefault(rule.max_attempts, 1),
   scheduled_at |-> last + HalfMinutes(OrDefault(rule.delay_minutes, defaultDelayMinutes)),
   execution_error |-> "none", reason |-> "none", created_by |-> "orphan_sync",
   minutes_late |-> RoundMinutes((at - last)
                      - HalfMinutes(OrDefault(rule.delay_minutes, defaultDelayMinutes))),
   executed |-> FALSE, ai_generated_message |-> "none"]

\* for (const rule of followUpRules): on to the next rule, or out of the loop
NextRule(t) ==
  [pc |-> IF exec[t].k < Len(followUpRules) THEN "check" ELSE "verify",
   k |-> exec[t].k + 1]

\* The conversations query and the read of the conversation's last messages;
\* now and lastMessageTime are fixed here for all the rules.  An error of
\* either read ends the detection with no orphan.
DetectBegin(t) ==
  /\ At(t, "detect")
  /\ \E readError \in Fails("conversations") :
       exec' = IF readError
                 THEN Set(t, [pc |-> "verify"])
                 ELSE Set(t, [pc |-> "check", k |-> 1, detNow |-> now,
                              detLast |-> last_message_at])
  /\ UNCHANGED <<queue, now, last_message_at, accepted, totalExecutions, inBusinessHours, faults, gen, totalErrors, credits, threads, run, totalFollowUpsSent, reminder, creditsUsage, pending>>

\* One rule of the loop up to the existence read.
FindOrphan(t) ==
  /\ At(t, "check")
  /\ LET rule == followUpRules[exec[t].k] IN
       \E existingError \in Fails("existing") :
         exec' = IF ~rule.is_active \/ ~DelayElapsed(rule, exec[t].detNow, exec[t].detLast)
                   THEN Set(t, NextRule(t))
                 ELSE IF existingError
                   THEN Set(t, NextRule(t))
                 ELSE IF ExistingFollowUp(rule.id)
                   THEN Set(t, NextRule(t))
                 ELSE Set(t, [pc |-> "insert"])
  /\ UNCHANGED <<queue, now, last_message_at, accepted, totalExecutions, inBusinessHours, faults, gen, totalErrors, credits, threads, run, totalFollowUpsSent, reminder, creditsUsage, pending>>

\* The insert of the orphan row, and orphanedFollowUps.push(newFollowUp).
CreateOrphan(t) ==
  /\ At(t, "insert")
  /\ LET rule == followUpRules[exec[t].k]
         row  == OrphanRow(rule, exec[t].detNow, exec[t].detLast)
         id   == Len(queue) + 1
     IN \E insertError \in Fails("insert") \cup {Len(queue) >= MaxRows} :
          /\ Len(queue) >= MaxRows => insertError
          /\ IF insertError
               THEN /\ exec' = Set(t, NextRule(t))
                    /\ UNCHANGED queue
               ELSE /\ queue' = Append(queue, row)
                    /\ exec' = Set(t, NextRule(t) @@
                         [orphanedFollowUps |-> Append(exec[t].orphanedFollowUps,
                            [id |-> id, rule |-> row.rule, attempts |-> row.attempts,
                             max_attempts |-> row.max_attempts])])
  /\ UNCHANGED <<now, last_message_at, accepted, totalExecutions, inBusinessHours, faults, gen, totalErrors, credits, threads, run, totalFollowUpsSent, reminder, creditsUsage, pending>>

\* The read, after the orphans were created, of a sent row of the same
\* conversation and rule for each of the first five: a hit is logged, and
\* the orphans are returned all the same.  Then
\* allFollowUps = [...pendingFollowUps, ...orphanedFollowUps].
VerifyOrphans(t) ==
  /\ At(t, "verify")
  /\ exec' = Set(t, [pc |-> "next", k |-> 0, detNow |-> 0, detLast |-> 0,
                     orphanedFollowUps |-> <<>>,
                     allFollowUps |-> exec[t].allFollowUps \o exec[t].orphanedFollowUps])
  /\ UNCHANGED <<queue, now, last_message_at, accepted, totalExecutions, inBusinessHours, faults, gen, totalErrors, credits, threads, run, totalFollowUpsSent, reminder, creditsUsage, pending>>

\* ------------------------------------------------------ processFollowUp
Item(t) == exec[t].followUp

Row(t) == queue[Item(t).id]

\* The status test as it would read if only a cancellation ended an item.
StatusCancelled(row) == row.status = "cancelled"

\* if (currentStatus.status !== 'pending')
StatusChanged(row) == row.status # "pending"

\* The attempts test as it would read with > for >=.
MaxAttemptsExceeded(row, followUp) == row.attempts > followUp.max_attempts

\* if (currentStatus.attempts >= followUp.max_attempts)
MaxAttemptsReached(row, followUp) == row.attempts >= followUp.max_attempts

\* const newAttempts = followUp.attempts + 1
NewAttempts(followUp) == followUp.attempts + 1

\* const status = newAttempts >= followUp.max_attempts ? 'failed' : 'pending'
RetryStatus(followUp) ==
  IF NewAttempts(followUp) >= followUp.max_attempts THEN "failed" ELSE "pending"

Returns(success, skipped, deferred, reason) ==
  [success |-> success, skipped |-> skipped, deferred |-> deferred, reason |-> reason]

\* What a result adds to results.filter(r => r.success && !r.deferred).length
Successful(r) == IF r.success /\ ~r.deferred THEN 1 ELSE 0

Throw(t, message) == Set(t, [pc |-> "catch", error |-> message])

\* for (const followUp of allFollowUps) is over, or there was nothing to process:
\* stats.totalFollowUpsSent += successful; if (failed > 0) stats.totalErrors +=
\* failed, and the run ends.
EndRun(t) ==
  /\ At(t, "next")
  /\ exec[t].allFollowUps = <<>>
  /\ totalFollowUpsSent' = Min(totalFollowUpsSent + exec[t].successful, MaxSentTotal)
  /\ totalErrors' = Min(totalErrors + exec[t].failed, ErrorCap)
  /\ exec' = [exec EXCEPT ![t] = IdleExec]
  /\ UNCHANGED <<queue, now, last_message_at, accepted, totalExecutions, inBusinessHours, faults, gen, credits, threads, run, reminder, creditsUsage, pending>>

\* processFollowUp(followUp) for the next item of the loop, up to the re-read
\* of status and attempts and the two checks made on it.
ReRead(t) ==
  /\ At(t, "next")
  /\ exec[t].allFollowUps # <<>>
  /\ LET followUp == Head(exec[t].allFollowUps)
         row == queue[followUp.id]
         begun == [followUp |-> followUp, allFollowUps |-> Tail(exec[t].allFollowUps),
                   logged |-> FALSE]
     IN \E statusError \in Fails("status") :
          exec' = IF statusError
                    THEN Set(t, begun @@ [pc |-> "catch", error |-> "not_found"])
                  ELSE IF StatusChanged(row)
                    THEN Set(t, begun @@ [pc |-> "finally",
                              ret |-> Returns(TRUE, TRUE, FALSE, "status_changed")])
                  ELSE IF MaxAttemptsReached(row, followUp)
                    THEN Set(t, begun @@ [pc |-> "maxfail"])
                  ELSE Set(t, begun @@ [pc |-> "guards"])
  /\ UNCHANGED <<queue, now, last_message_at, accepted, totalExecutions, inBusinessHours, faults, gen, totalErrors, credits, threads, run, totalFollowUpsSent, reminder, creditsUsage, pending>>

\* update({ status: 'failed', execution_error: 'Máximo de ... tentativas' })
MaxAttemptsFail(t) ==
  /\ At(t, "maxfail")
  /\ queue' = Update(Item(t).id, [status |-> "failed", execution_error |-> "max_attempts"])
  /\ exec' = Set(t, [pc |-> "finally",
                     ret |-> Returns(FALSE, FALSE, FALSE, "Max attempts reached")])
  /\ UNCHANGED <<now, last_message_at, accepted, totalExecutions, inBusinessHours, faults, gen, totalErrors, credits, threads, run, totalFollowUpsSent, reminder, creditsUsage, pending>>

\* The guards as they would read with the business-hours check placed
\* after the generation of the message.
GuardsAfterGeneration(t) ==
  /\ At(t, "guards")
  /\ LET rule == CHOOSE r \in {followUpRules[k] : k \in 1..Len(followUpRules)} :
                   r.id = Item(t).rule
     IN \E noCredits \in Fails("credits"), noContext \in Fails("context"),
           noAgent \in Fails("agent") :
          exec' = IF noCredits THEN Set(t, [pc |-> "nocredits"])
                  ELSE IF noContext THEN Throw(t, "context")
                  ELSE IF noAgent THEN Throw(t, "agent")
                  ELSE IF rule.exclude_business_hours /\ ~inBusinessHours
                    THEN Set(t, [pc |-> "defer", generated |-> TRUE])
                  ELSE Set(t, [pc |-> "generate"])
  /\ UNCHANGED <<queue, now, last_message_at, accepted, totalExecutions, inBusinessHours, faults, gen, totalErrors, credits, threads, run, totalFollowUpsSent, reminder, creditsUsage, pending>>

\* The credit check, the loads of the context and of the agent, and the
\* business-hours check, in the order of the source.
Guards(t) ==
  /\ At(t, "guards")
  /\ LET rule == CHOOSE r \in {followUpRules[k] : k \in 1..Len(followUpRules)} :
                   r.id = Item(t).rule
     IN \E noCredits \in Fails("credits"), noContext \in Fails("context"),
           noAgent \in Fails("agent") :
          exec' = IF noCredits THEN Set(t, [pc |-> "nocredits"])
                  ELSE IF noContext THEN Throw(t, "context")
                  ELSE IF noAgent THEN Throw(t, "agent")
                  ELSE IF rule.exclude_business_hours /\ ~inBusinessHours
                    THEN Set(t, [pc |-> "defer"])
                  ELSE Set(t, [pc |-> "generate"])
  /\ UNCHANGED <<queue, now, last_message_at, accepted, totalExecutions, inBusinessHours, faults, gen, totalErrors, credits, threads, run, totalFollowUpsSent, reminder, creditsUsage, pending>>

\* update({ status: 'failed', attempts: followUp.attempts + 1, ... }) and
\* throw new Error('Créditos insuficientes ...')
InsufficientCredits(t) ==
  /\ At(t, "nocredits")
  /\ queue' = Update(Item(t).id, [status |-> "failed", attempts |-> NewAttempts(Item(t)),
                                  execution_error |-> "credits"])
  /\ exec' = Throw(t, "credits")
  /\ UNCHANGED <<now, last_message_at, accepted, totalExecutions, inBusinessHours, faults, gen, totalErrors, credits, threads, run, totalFollowUpsSent, reminder, creditsUsage, pending>>

\* update({ scheduled_at: nextBusinessHourLocal, metadata: ... }): the start
\* hour of today or tomorrow on the server's clock, which lies before now or
\* past the horizon of this clock.
Defer(t) ==
  /\ At(t, "defer")
  /\ \E past \in BOOLEAN :
       queue' = Update(Item(t).id,
                  [scheduled_at |-> IF past THEN 0 ELSE MaxNow + 1,
                   reason |-> "outside_business_hours"])
  /\ exec' = Set(t, [pc |-> "finally", ret |-> Returns(TRUE, FALSE, TRUE, "deferred")])
  /\ UNCHANGED <<now, last_message_at, accepted, totalExecutions, inBusinessHours, faults, gen, totalErrors, credits, threads, run, totalFollowUpsSent, reminder, creditsUsage, pending>>

\* generatePersonalizedMessageWithZionicCredits, with whatever provider
\* calls and debit it makes, gives the text of the assistant or the
\* substituted template; then the lookup of the connected WhatsApp instance.
Generate(t) ==
  /\ At(t, "generate")
  /\ \E aiError \in Fails("assistant"), noInstance \in Fails("instance") :
       LET done == [finalMessage |-> IF aiError THEN "substituted" ELSE "ai",
                    generated |-> TRUE]
       IN exec' = IF noInstance
                    THEN Set(t, done @@ [pc |-> "catch", error |-> "instance"])
                    ELSE Set(t, done @@ [pc |-> "send", instance |-> "connected"])
  /\ UNCHANGED <<queue, now, last_message_at, accepted, totalExecutions, inBusinessHours, faults, gen, totalErrors, credits, threads, run, totalFollowUpsSent, reminder, creditsUsage, pending>>

\* sendWhatsAppMessage(instance.name, phone, finalMessage)
SendWhatsAppMessage(t) ==
  /\ At(t, "send")
  /\ \E refused \in Fails("send") :
       IF refused
         THEN /\ exec' = Throw(t, "send")
              /\ UNCHANGED accepted
         ELSE /\ accepted' = [accepted EXCEPT ![Item(t).id] = Min(@ + 1, SendCap)]
              /\ exec' = Set(t, [pc |-> "marksent", sent |-> TRUE])
  /\ UNCHANGED <<queue, now, last_message_at, totalExecutions, inBusinessHours, faults, gen, totalErrors, credits, threads, run, totalFollowUpsSent, reminder, creditsUsage, pending>>

\* update({ status: 'sent', attempts: followUp.attempts + 1, executed_at,
\* ai_generated_message }), or its error thrown on
MarkSent(t) ==
  /\ At(t, "marksent")
  /\ \E updateError \in Fails("sent_write") :
       IF updateError
         THEN /\ exec' = Throw(t, "sent_write")
              /\ UNCHANGED queue
         ELSE /\ queue' = Update(Item(t).id,
                            [status |-> "sent", attempts |-> NewAttempts(Item(t)),
                             executed |-> TRUE,
                             ai_generated_message |-> exec[t].finalMessage])
              /\ exec' = Set(t, [pc |-> "record"])
  /\ UNCHANGED <<now, last_message_at, accepted, totalExecutions, inBusinessHours, faults, gen, totalErrors, credits, threads, run, totalFollowUpsSent, reminder, creditsUsage, pending>>

\* The insert of the outbound row of messages (sent_at: now); its error is
\* logged only.
RecordMessage(t) ==
  /\ At(t, "record")
  /\ \E messageError \in Fails("message") :
       last_message_at' = IF messageError THEN last_message_at ELSE now
  /\ exec' = Set(t, [pc |-> "finally", ret |-> Returns(TRUE, FALSE, FALSE, "sent")])
  /\ UNCHANGED <<queue, now, accepted, totalExecutions, inBusinessHours, faults, gen, totalErrors, credits, threads, run, totalFollowUpsSent, reminder, creditsUsage, pending>>

\* catch (error): update({ attempts: newAttempts, status, execution_error })
\* and return { success: false, error }; an exception raised by the update
\* itself leaves the catch block and the function, by way of the finally.
Catch(t) ==
  /\ At(t, "catch")
  /\ \E raised \in Fails("retry_write") :
       IF raised
         THEN /\ exec' = Set(t, [pc |-> "finally", escaped |-> TRUE])
              /\ UNCHANGED queue
         ELSE /\ queue' = Update(Item(t).id,
                            [attempts |-> NewAttempts(Item(t)),
                             status |-> RetryStatus(Item(t)),
                             execution_error |-> exec[t].error])
              /\ exec' = Set(t, [pc |-> "finally",
                                 ret |-> Returns(FALSE, FALSE, FALSE, exec[t].error)])
  /\ UNCHANGED <<now, last_message_at, accepted, totalExecutions, inBusinessHours, faults, gen, totalErrors, credits, threads, run, totalFollowUpsSent, reminder, creditsUsage, pending>>

\* The finally block as it would read without the try around the insert: a
\* failed log write leaves the call as an exception.
FinallyThrows(t) ==
  /\ At(t, "finally")
  /\ \E logError \in Fails("log") :
       IF exec[t].escaped \/ logError
         THEN /\ exec' = [exec EXCEPT ![t] = IdleExec]
              /\ totalErrors' = Min(totalErrors + 1, ErrorCap)
         ELSE /\ exec' = Set(t, [pc |-> "next", logged |-> TRUE,
                                 followUp |-> NoItem, ret |-> NoReturn, error |-> "none",
                                 finalMessage |-> "none", generated |-> FALSE,
                                 sent |-> FALSE, conversation |-> NoConversation,
                                 timezone |-> 0, instance |-> "none",
                                 failed |-> IF exec[t].ret.success THEN exec[t].failed
                                            ELSE exec[t].failed + 1,
                                 successful |-> exec[t].successful
                                                  + Successful(exec[t].ret)])
              /\ UNCHANGED totalErrors
  /\ UNCHANGED <<queue, now, last_message_at, accepted, totalExecutions, inBusinessHours, faults, gen, credits, threads, run, totalFollowUpsSent, reminder, creditsUsage, pending>>

\* finally: the insert into follow_up_logs, its failure swallowed; the call
\* is over and its locals are gone.  A returned result is pushed to results
\* (counted here when it is not a success) and the loop pauses a second; an
\* exception that left the call ends the loop in the catch of
\* executeFollowUps: stats.totalErrors++, and the run is over.
Finally(t) ==
  /\ At(t, "finally")
  /\ \E logError \in Fails("log") :
       IF exec[t].escaped
         THEN /\ exec' = [exec EXCEPT ![t] = IdleExec]
              /\ totalErrors' = Min(totalErrors + 1, ErrorCap)
         ELSE /\ exec' = Set(t, [pc |-> "next", logged |-> ~logError,
                                 followUp |-> NoItem, ret |-> NoReturn, error |-> "none",
                                 finalMessage |-> "none", generated |-> FALSE,
                                 sent |-> FALSE, conversation |-> NoConversation,
                                 timezone |-> 0, instance |-> "none",
                                 failed |-> IF exec[t].ret.success THEN exec[t].failed
                                            ELSE exec[t].failed + 1,
                                 successful |-> exec[t].successful
                                                  + Successful(exec[t].ret)])
              /\ UNCHANGED totalErrors
  /\ UNCHANGED <<queue, now, last_message_at, accepted, totalExecutions, inBusinessHours, faults, gen, credits, threads, run, totalFollowUpsSent, reminder, creditsUsage, pending>>

\* ----------------------------------------- the business-hours deferral
\* Time counted in hours of the server's local clock: hour 0 is the server's
\* midnight of day 0.  A company timezone is the number of hours its wall
\* clock is ahead of the server's.
HoursPerDay == 24

businessHoursStart == 8

businessHoursEnd == 18

Offsets == {0 - 3, 0, 3}

\* parseInt of the hour that Intl.DateTimeFormat gives for the instant in
\* the company's timezone
CompanyHour(instant, timezone) == (instant + timezone) % HoursPerDay

\* currentHour >= CONFIG.businessHours.start && currentHour < CONFIG.businessHours.end
IsBusinessHours(instant, timezone) ==
  /\ CompanyHour(instant, timezone) >= businessHoursStart
  /\ CompanyHour(instant, timezone) < businessHoursEnd

\* nextBusinessHour: tomorrow when the company's hour is past the end,
\* and then setHours(start, 0, 0, 0) on the server's clock.
NextBusinessHour(instant, timezone) ==
  LET day == IF CompanyHour(instant, timezone) >= businessHoursEnd
               THEN (instant \div HoursPerDay) + 1
               ELSE instant \div HoursPerDay
  IN day * HoursPerDay + businessHoursStart

\* An item of a rule that excludes the hours outside business, due now or
\* an hour ago, whose call has passed the credit check and the loads of
\* the context and of the agent, at any hour of the server's day.
InitHours ==
  /\ now \in 0..(HoursPerDay - 1)
  /\ \E due \in {now, now - 1} \cap Nat :
       queue = <<[TriggerRow EXCEPT !.scheduled_at = due]>>
  /\ last_message_at = 0
  /\ accepted = [i \in 1..MaxRows |-> 0]
  /\ exec = [t \in Ticks |-> IF t = 1
                THEN [IdleExec EXCEPT !.pc = "hours", !.followUp =
                        [id |-> 1, rule |-> "r1", attempts |-> 0, max_attempts |-> 2]]
                ELSE IdleExec]
  /\ totalExecutions = 1
  /\ gen = NoGen
  /\ totalErrors = 0
  /\ credits = NoCredits
  /\ threads = NoThreads
  /\ pending = NoPending
  /\ creditsUsage = NoUsage
  /\ reminder = NoReminder
  /\ totalFollowUpsSent = 0
  /\ run = NoRun
  /\ inBusinessHours = TRUE
  /\ faults = {"send"}

\* rule?.conditions?.exclude_business_hours && !(await isBusinessHours(company_id)),
\* with the timezone that getCompanyTimezone reads
BusinessHoursCheck(t) ==
  /\ At(t, "hours")
  /\ LET rule == CHOOSE r \in {followUpRules[k] : k \in 1..Len(followUpRules)} :
                   r.id = Item(t).rule
     IN \E timezone \in Offsets :
          exec' = IF rule.exclude_business_hours /\ ~IsBusinessHours(now, timezone)
                    THEN Set(t, [pc |-> "deferhours", timezone |-> timezone])
                    ELSE Set(t, [pc |-> "generate", timezone |-> timezone])
  /\ UNCHANGED <<queue, now, last_message_at, accepted, totalExecutions, inBusinessHours, faults, gen, totalErrors, credits, threads, run, totalFollowUpsSent, reminder, creditsUsage, pending>>

\* update({ scheduled_at: nextBusinessHourLocal.toISOString(), metadata })
\* and return { success: true, deferred: true }
DeferHours(t) ==
  /\ At(t, "deferhours")
  /\ queue' = Update(Item(t).id,
                [scheduled_at |-> NextBusinessHour(now, exec[t].timezone),
                 reason |-> "outside_business_hours"])
  /\ exec' = Set(t, [pc |-> "finally", ret |-> Returns(TRUE, FALSE, TRUE, "deferred")])
  /\ UNCHANGED <<now, last_message_at, accepted, totalExecutions, inBusinessHours, faults, gen, totalErrors, credits, threads, run, totalFollowUpsSent, reminder, creditsUsage, pending>>

\* ------------------------------ generatePersonalizedMessageWithZionicCredits
\* A text is a sequence of words.  The word "{nome}" is the placeholder of
\* a template; "$'" and "$&" are the replacement patterns of
\* String.prototype.replace for the text after the match and for the match,
\* and "$<" stands for the pattern for the text before it (dollar,
\* backquote); a contact's name can contain them like any other characters.
Templates == {<<"{nome}">>, <<"Oi", "{nome}">>, <<"Oi">>}

\* contact.first_name: missing, a name, a name that is a replacement pattern
Names == {<<>>, <<"Ana">>, <<"$'">>}

\* The replacement string as replace() expands it for a match with this
\* text before it and this text after it.
RECURSIVE Expand(_, _, _)
Expand(replacement, before, after) ==
  IF replacement = <<>> THEN <<>>
  ELSE LET word == Head(replacement)
           text == IF word = "$'" THEN after
                   ELSE IF word = "$<" THEN before
                   ELSE IF word = "$&" THEN <<"{nome}">>
                   ELSE <<word>>
       IN text \o Expand(Tail(replacement), before, after)

\* template.replace('{nome}', context.contact?.first_name || 'usuário'):
\* the first placeholder is replaced, a template without one is unchanged.
Substituted(template, first_name) ==
  LET name == IF first_name = <<>> THEN <<"usuario">> ELSE first_name
      places == {i \in 1..Len(template) : template[i] = "{nome}"}
  IN IF places = {} THEN template
     ELSE LET i == CHOOSE p \in places : \A q \in places : p <= q
              before == SubSeq(template, 1, i - 1)
              after == SubSeq(template, i + 1, Len(template))
          IN before \o Expand(name, before, after) \o after

\* message.trim() of the provider's text: nothing is left of a blank one
Trimmed(message) == IF message = "text" THEN <<"ai">> ELSE <<>>

\* A call of the generation function is about to begin, in the revision
\* with persistent threads (src/server.js) or in the one with a chat
\* completion (v1.5.0), while processFollowUp waits for it.
InitGenerate ==
  /\ queue = <<TriggerRow>>
  /\ now = 2
  /\ last_message_at = 0
  /\ accepted = [i \in 1..MaxRows |-> 0]
  /\ exec = [t \in Ticks |-> IF t = 1
                THEN [IdleExec EXCEPT !.pc = "generate", !.followUp =
                        [id |-> 1, rule |-> "r1", attempts |-> 0, max_attempts |-> 2]]
                ELSE IdleExec]
  /\ totalExecutions = 1
  /\ inBusinessHours = TRUE
  /\ faults = Calls
  /\ totalErrors = 0
  /\ credits = NoCredits
  /\ threads = NoThreads
  /\ pending = NoPending
  /\ creditsUsage = NoUsage
  /\ reminder = NoReminder
  /\ totalFollowUpsSent = 0
  /\ run = NoRun
  /\ \E variant \in {"threads", "completion"}, template \in Templates,
        first_name \in Names :
       gen = [NoGen EXCEPT !.pc = IF variant = "threads" THEN "key" ELSE "gate",
                           !.variant = variant, !.template = template,
                           !.first_name = first_name]

GenSet(fields) ==
  [f \in DOMAIN gen |-> IF f \in DOMAIN fields THEN fields[f] ELSE gen[f]]

\* return template.replace('{nome}', ...)
ReturnTemplate == [pc |-> "done", result |-> Substituted(gen.template, gen.first_name)]

GenUnchanged ==
  UNCHANGED <<queue, now, last_message_at, accepted, exec, totalExecutions,
              inBusinessHours, faults, totalErrors, credits, threads, run, totalFollowUpsSent, reminder, creditsUsage, pending>>

\* const ZIONIC_OPENAI_KEY = process.env.ZIONIC_OPENAI_KEY || process.env.OPENAI_API_KEY
KeyLookup ==
  /\ gen.pc = "key"
  /\ \E configured \in BOOLEAN :
       gen' = IF ~configured THEN GenSet(ReturnTemplate)
              ELSE GenSet([pc |-> IF gen.variant = "threads" THEN "gate" ELSE "completion"])
  /\ GenUnchanged

\* The gate as it would read if it only logged the shortage.
GateNeverCloses(hasEnough) == FALSE

\* if (!creditsCheck.hasEnough)
GateCloses(hasEnough) == ~hasEnough

\* checkCreditsBalance(companyId, estimate), false also when the balance
\* cannot be read; then notifyZionicCreditsInsufficient, whose insert can
\* fail, and the template.
CreditGate ==
  /\ gen.pc = "gate"
  /\ \E hasEnough \in BOOLEAN, inserted \in BOOLEAN :
       LET reported == [gate |-> IF hasEnough THEN "enough" ELSE "insufficient"]
       IN gen' = IF GateCloses(hasEnough)
                   THEN GenSet(ReturnTemplate @@ reported @@
                               [events |-> Append(gen.events, "notifyZionicCreditsInsufficient"),
                                notified |-> IF inserted THEN "zionic_credits_insufficient"
                                             ELSE "none"])
                 ELSE GenSet(reported @@
                             [pc |-> IF gen.variant = "threads" THEN "thread" ELSE "key"])
  /\ GenUnchanged

\* throw inside a strategy, rethrown to the catch of the generation function
GenThrow(event) == GenSet([pc |-> "catch", events |-> Append(gen.events, event)])

\* getOrCreateOpenAIThread: the thread of the conversation is reused, or a
\* thread is created at the provider; null, and the strategy throws, when
\* the conversation cannot be read or the provider fails.
OpenThread ==
  /\ gen.pc = "thread"
  /\ \E outcome \in {"reused", "created", "unread", "failed"} :
       gen' = IF outcome = "reused" THEN GenSet([pc |-> "append"])
              ELSE IF outcome = "created"
                THEN GenSet([pc |-> "append", events |-> Append(gen.events, "thread_create")])
              ELSE IF outcome = "unread" THEN GenSet([pc |-> "catch"])
              ELSE GenThrow("thread_create")
  /\ GenUnchanged

\* addMessageToOpenAIThread(apiKey, threadId, followUpPrompt, 'user')
AppendMessage ==
  /\ gen.pc = "append"
  /\ \E failed \in BOOLEAN :
       gen' = IF failed THEN GenThrow("message_append")
              ELSE GenSet([pc |-> "run", events |-> Append(gen.events, "message_append")])
  /\ GenUnchanged

\* executeOpenAIRun / executeOpenAIRunWithModel: the run is created and
\* polled until it completes, fails or the polls run out; a completed run
\* has a usage with total_tokens or has none.
ExecuteRun ==
  /\ gen.pc = "run"
  /\ \E outcome \in {"completed", "failed", "timeout"}, usage \in BOOLEAN :
       gen' = IF outcome = "completed"
                THEN GenSet([pc |-> "list", usage |-> usage,
                             events |-> Append(gen.events, "run")])
              ELSE GenThrow("run")
  /\ GenUnchanged

\* getLatestAssistantMessage: the newest text of the assistant, or null
LatestMessage ==
  /\ gen.pc = "list"
  /\ \E message \in {"none", "blank", "text"} :
       gen' = IF message = "none" THEN GenThrow("message_list")
              ELSE GenSet([pc |-> "debit", message |-> message,
                           events |-> Append(gen.events, "message_list")])
  /\ GenUnchanged

\* if (runResult.usage?.total_tokens) await processOpenAICreditsUsage(...,
\* runResult.usage.total_tokens, ...); return assistantMessage.trim(); and in
\* the caller the template when the strategy returned nothing.
DebitUsage ==
  /\ gen.pc = "debit"
  /\ \E consumed \in BOOLEAN :
       LET charged == [events |-> Append(gen.events, "debit"),
                       debited |-> IF consumed THEN "usage" ELSE "none"]
           returned == IF Trimmed(gen.message) = <<>> THEN ReturnTemplate
                       ELSE [pc |-> "done", result |-> Trimmed(gen.message)]
       IN gen' = IF gen.usage THEN GenSet(returned @@ charged) ELSE GenSet(returned)
  /\ GenUnchanged

\* axios.post('https://api.openai.com/v1/chat/completions', ...) and
\* response.data.choices[0]?.message?.content?.trim(): the template when
\* nothing is left of it.
Completion ==
  /\ gen.pc = "completion"
  /\ \E failed \in BOOLEAN, message \in {"none", "blank", "text"}, usage \in BOOLEAN :
       gen' = IF failed THEN GenThrow("completion")
              ELSE IF Trimmed(message) = <<>>
                THEN GenSet(ReturnTemplate @@
                            [message |-> message,
                             events |-> Append(gen.events, "completion")])
              ELSE GenSet([pc |-> "charge", message |-> message, usage |-> usage,
                           events |-> Append(gen.events, "completion")])
  /\ GenUnchanged

\* const actualTokensUsed = response.data.usage?.total_tokens || estimatedTokens;
\* await processOpenAICreditsUsage(companyId, actualTokensUsed, ...);
\* return generatedMessage
DebitCompletion ==
  /\ gen.pc = "charge"
  /\ \E consumed \in BOOLEAN :
       gen' = GenSet([pc |-> "done", result |-> Trimmed(gen.message),
                      events |-> Append(gen.events, "debit"),
                      debited |-> IF ~consumed THEN "none"
                                  ELSE IF gen.usage THEN "usage" ELSE "estimate"])
  /\ GenUnchanged

\* catch (error): notifyOpenAIError, whose insert can fail, and the template
GenCatch ==
  /\ gen.pc = "catch"
  /\ \E inserted \in BOOLEAN :
       gen' = GenSet(ReturnTemplate @@
                     [events |-> Append(gen.events, "notifyOpenAIError"),
                      notified |-> IF inserted THEN "openai_error" ELSE "none"])
  /\ GenUnchanged

\* ------------------------------------- processFollowUp of the processor
\* The four checks the processor makes on the conversation, in the order of
\* the source, as the cancelled_reason they give.
CancelReasonWithoutPause(conversation) ==
  IF ~conversation.ai_agent_id THEN "no_agent_assigned"
  ELSE IF ~conversation.ai_enabled THEN "agent_paused"
  ELSE IF conversation.assigned_to /\ ~conversation.ai_enabled THEN "assigned_to_human"
  ELSE "none"

CancelReason(conversation) ==
  IF ~conversation.ai_agent_id THEN "no_agent_assigned"
  ELSE IF ~conversation.ai_enabled THEN "agent_paused"
  ELSE IF conversation.assigned_to /\ ~conversation.ai_enabled THEN "assigned_to_human"
  ELSE IF conversation.follow_up_paused THEN "follow_ups_paused"
  ELSE "none"

\* validateAgentConditions(supabase, conversation, agentId): the reason it
\* gives with canRespond false, "none" with canRespond true.
ValidateAgentConditions(conversation, agentFound, agentActive) ==
  IF ~agentFound THEN "Agent not found"
  ELSE IF ~agentActive THEN "Agent is not active"
  ELSE IF conversation.assigned_to /\ ~conversation.ai_enabled
    THEN "Conversation assigned to human agent"
  ELSE IF ~conversation.ai_enabled THEN "AI agent manually paused by user"
  ELSE IF conversation.follow_up_paused THEN "Follow-ups paused for this conversation"
  ELSE "none"

\* The processor's processFollowUp for the next item of the loop: the
\* re-read of status and attempts, the read of the conversation, and the
\* choice among the conversation checks and the attempts check.
ProcessorReRead(t) ==
  /\ At(t, "next")
  /\ exec[t].allFollowUps # <<>>
  /\ LET followUp == Head(exec[t].allFollowUps)
         row == queue[followUp.id]
         begun == [followUp |-> followUp, allFollowUps |-> Tail(exec[t].allFollowUps),
                   logged |-> FALSE]
     IN \E statusError \in Fails("status"), convError \in Fails("conversations"),
           conversation \in Conversations :
          exec' = IF statusError
                    THEN Set(t, begun @@ [pc |-> "catch", error |-> "not_found"])
                  ELSE IF StatusChanged(row)
                    THEN Set(t, begun @@ [pc |-> "finally",
                              ret |-> Returns(TRUE, TRUE, FALSE, "status_changed")])
                  ELSE IF convError
                    THEN Set(t, begun @@ [pc |-> "catch", error |-> "conversation"])
                  ELSE IF CancelReason(conversation) # "none"
                    THEN Set(t, begun @@ [pc |-> "cancel", conversation |-> conversation])
                  ELSE IF MaxAttemptsReached(row, followUp)
                    THEN Set(t, begun @@ [pc |-> "maxfail", conversation |-> conversation])
                  ELSE Set(t, begun @@ [pc |-> "validate", conversation |-> conversation])
  /\ UNCHANGED <<queue, now, last_message_at, accepted, totalExecutions, inBusinessHours, faults, gen, totalErrors, credits, threads, run, totalFollowUpsSent, reminder, creditsUsage, pending>>

\* update({ status: 'cancelled', execution_error, metadata: {
\* cancelled_reason, ... } }) and return { success: true, skipped: true,
\* reason }
CancelFollowUp(t) ==
  /\ At(t, "cancel")
  /\ LET reason == CancelReason(exec[t].conversation)
     IN /\ queue' = Update(Item(t).id, [status |-> "cancelled", execution_error |-> reason,
                                        reason |-> reason])
        /\ exec' = Set(t, [pc |-> "finally", ret |-> Returns(TRUE, TRUE, FALSE, reason)])
  /\ UNCHANGED <<now, last_message_at, accepted, totalExecutions, inBusinessHours, faults, gen, totalErrors, credits, threads, run, totalFollowUpsSent, reminder, creditsUsage, pending>>

\* The load of the context, validateAgentConditions on the conversation of
\* the context with the cancellation it leads to, and the load of the
\* agent.
ValidateAgent(t) ==
  /\ At(t, "validate")
  /\ \E noContext \in Fails("context"), notFound \in Fails("agent"),
        noAgent \in Fails("agent"), agentActive \in BOOLEAN,
        conversation \in Conversations :
       LET reason == ValidateAgentConditions(conversation, ~notFound, agentActive)
       IN IF noContext
            THEN exec' = Throw(t, "context") /\ UNCHANGED queue
          ELSE IF reason # "none"
            THEN /\ queue' = Update(Item(t).id,
                               [status |-> "cancelled", execution_error |-> reason,
                                reason |-> "agent_validation_failed"])
                 /\ exec' = Set(t, [pc |-> "finally",
                                    ret |-> Returns(TRUE, TRUE, FALSE, reason)])
          ELSE IF noAgent
            THEN exec' = Throw(t, "agent") /\ UNCHANGED queue
          ELSE exec' = Set(t, [pc |-> "personalize"]) /\ UNCHANGED queue
  /\ UNCHANGED <<now, last_message_at, accepted, totalExecutions, inBusinessHours, faults, gen, totalErrors, credits, threads, run, totalFollowUpsSent, reminder, creditsUsage, pending>>

\* generatePersonalizedMessage(template, context, agent, company_id) gives
\* the text of the assistant or the substituted template; then const
\* instanceName = instance?.name || 'internal_system', the lookup of the
\* connected instance, which ends nothing.
ProcessorGenerate(t) ==
  /\ At(t, "personalize")
  /\ \E aiError \in Fails("assistant"), noInstance \in Fails("instance") :
       exec' = Set(t, [finalMessage |-> IF aiError THEN "substituted" ELSE "ai",
                       generated |-> TRUE, pc |-> "send",
                       instance |-> IF noInstance THEN "internal_system"
                                    ELSE "connected"])
  /\ UNCHANGED <<queue, now, last_message_at, accepted, totalExecutions, inBusinessHours, faults, gen, totalErrors, credits, threads, run, totalFollowUpsSent, reminder, creditsUsage, pending>>

\* ------------------------------------------------- checkCreditsBalance
\* The service at rest, while one of its helper functions is looked at.
AtRest ==
  /\ queue = <<TriggerRow>>
  /\ now = 2
  /\ last_message_at = 0
  /\ accepted = [i \in 1..MaxRows |-> 0]
  /\ exec = [t \in Ticks |-> IdleExec]
  /\ totalExecutions = 0
  /\ inBusinessHours = TRUE
  /\ faults = Calls
  /\ totalErrors = 0

\* What a caller can pass as companyId: undefined, null, the text
\* 'undefined', the empty text, or the id of a company.
CompanyIds == {"missing", "null", "undefined_text", "empty", "c1"}

\* !companyId
Falsy(companyId) == companyId \in {"missing", "null", "empty"}

\* if (!companyId || companyId === 'undefined' || companyId === null)
InvalidCompanyId(companyId) ==
  Falsy(companyId) \/ companyId = "undefined_text" \/ companyId = "null"

\* The balances company_credits can hold; 0 is also what a missing balance
\* reads as (data?.balance || 0).
Balances == (0 - 1)..MaxBalance

\* The amounts a caller asks for (200 by default, 300 and 1000 elsewhere).
Required == 1..MaxBalance

\* The comparison as it would read with > for >=.
HasMoreThan(currentBalance, estimatedTokens) == currentBalance > estimatedTokens

\* const hasEnough = currentBalance >= estimatedTokens
HasEnough(currentBalance, estimatedTokens) == currentBalance >= estimatedTokens

\* return { hasEnough: false, currentBalance: 0, required, error }
Closed(error) == [pc |-> "done", hasEnough |-> FALSE, currentBalance |-> 0, error |-> error]

\* A caller is about to call checkCreditsBalance(companyId, estimatedTokens).
InitCredits ==
  /\ AtRest
  /\ gen = NoGen
  /\ threads = NoThreads
  /\ pending = NoPending
  /\ creditsUsage = NoUsage
  /\ reminder = NoReminder
  /\ totalFollowUpsSent = 0
  /\ run = NoRun
  /\ \E companyId \in CompanyIds, estimatedTokens \in Required :
       credits = [pc |-> "validate", companyId |-> companyId, required |-> estimatedTokens,
                  lookup |-> "none", balance |-> 0, hasEnough |-> FALSE,
                  currentBalance |-> 0, error |-> "none", threw |-> FALSE]

CreditsSet(fields) ==
  [f \in DOMAIN credits |-> IF f \in DOMAIN fields THEN fields[f] ELSE credits[f]]

CreditsUnchanged ==
  UNCHANGED <<queue, now, last_message_at, accepted, exec, totalExecutions,
              inBusinessHours, faults, gen, totalErrors, threads, run, totalFollowUpsSent, reminder, creditsUsage, pending>>

\* The validation of the input.
CreditsValidate ==
  /\ credits.pc = "validate"
  /\ credits' = IF InvalidCompanyId(credits.companyId)
                  THEN CreditsSet(Closed("CompanyId invalido"))
                  ELSE CreditsSet([pc |-> "lookup"])
  /\ CreditsUnchanged

\* from('company_credits').select('balance').eq('company_id', ...).single():
\* a row, an error in the result, or a rejection that the catch receives.
CreditsLookup ==
  /\ credits.pc = "lookup"
  /\ \E outcome \in {"row", "error", "throws"}, balance \in Balances :
       /\ outcome # "row" => balance = 0
       /\ credits' =
            CASE outcome = "error" -> CreditsSet(Closed("error") @@ [lookup |-> outcome])
              [] outcome = "throws" -> CreditsSet([pc |-> "catch", lookup |-> outcome])
              [] OTHER -> CreditsSet([pc |-> "compare", lookup |-> outcome,
                                      balance |-> balance])
  /\ CreditsUnchanged

\* const currentBalance = data?.balance || 0, the comparison and the return.
CreditsCompare ==
  /\ credits.pc = "compare"
  /\ LET currentBalance == OrDefault(credits.balance, 0)
     IN credits' = CreditsSet([pc |-> "done", currentBalance |-> currentBalance,
                               hasEnough |-> HasEnough(currentBalance, credits.required)])
  /\ CreditsUnchanged

\* catch (error): the same closed answer.
CreditsCatch ==
  /\ credits.pc = "catch"
  /\ credits' = CreditsSet(Closed("thrown"))
  /\ CreditsUnchanged

NextCredits == CreditsValidate \/ CreditsLookup \/ CreditsCompare \/ CreditsCatch

SpecCredits == InitCredits /\ [][NextCredits]_vars

\* --------------------------------------------- getOrCreateOpenAIThread
\* No call of getOrCreateOpenAIThread in progress in an execution; ret is
\* what its last call returned, 0 for null.
NoThreadCall == [pc |-> "idle", threadId |-> 0, ret |-> 0]

\* The conversation has no thread yet (openai_thread_id is null, written
\* 0), the provider has created none (its threads are numbered from 1), and
\* two executions are about to generate a message for the conversation.
InitThreads ==
  /\ AtRest
  /\ gen = NoGen
  /\ credits = NoCredits
  /\ run = NoRun
  /\ totalFollowUpsSent = 0
  /\ reminder = NoReminder
  /\ creditsUsage = NoUsage
  /\ pending = NoPending
  /\ threads = [openai_thread_id |-> 0, created |-> 0,
                call |-> [t \in Ticks |-> NoThreadCall]]

ThreadsUnchanged ==
  UNCHANGED <<queue, now, last_message_at, accepted, exec, totalExecutions,
              inBusinessHours, faults, gen, totalErrors, credits, run, totalFollowUpsSent, reminder, creditsUsage, pending>>

ThreadCall(t, fields) ==
  [threads.call EXCEPT ![t] = [f \in DOMAIN threads.call[t] |->
     IF f \in DOMAIN fields THEN fields[f] ELSE threads.call[t][f]]]

\* return null / return threadId
ThreadReturn(t, threadId) == ThreadCall(t, [pc |-> "idle", threadId |-> 0, ret |-> threadId])

\* A strategy of the generation calls getOrCreateOpenAIThread.
ThreadBegin(t) ==
  /\ threads.call[t].pc = "idle"
  /\ threads' = [threads EXCEPT !.call = ThreadCall(t, [pc |-> "read", ret |-> 0])]
  /\ ThreadsUnchanged

\* select('openai_thread_id') ... .single(): null on an error, the cached
\* id when the conversation has one, otherwise on to the creation.
ThreadRead(t) ==
  /\ threads.call[t].pc = "read"
  /\ \E error \in Fails("thread_read") :
       threads' = [threads EXCEPT !.call =
         IF error THEN ThreadReturn(t, 0)
         ELSE IF threads.openai_thread_id # 0 THEN ThreadReturn(t, threads.openai_thread_id)
         ELSE ThreadCall(t, [pc |-> "create"])]
  /\ ThreadsUnchanged

\* axios.post('https://api.openai.com/v1/threads', ...): the provider makes
\* a new thread and gives its id, or the request fails and the catch
\* returns null.
ThreadCreate(t) ==
  /\ threads.call[t].pc = "create"
  /\ \E failed \in Fails("thread_create") :
       IF failed \/ threads.created = MaxThreads
         THEN threads' = [threads EXCEPT !.call = ThreadReturn(t, 0)]
         ELSE threads' = [threads EXCEPT !.created = @ + 1,
                            !.call = ThreadCall(t, [pc |-> "save", threadId |-> threads.created + 1])]
  /\ ThreadsUnchanged

\* update({ openai_thread_id: threadId, ... }).eq('id', conversationId),
\* whose result is not looked at; addSystemMessageToThread, which catches
\* its own errors; return threadId.
ThreadSave(t) ==
  /\ threads.call[t].pc = "save"
  /\ \E error \in Fails("thread_save") :
       threads' = [threads EXCEPT
         !.openai_thread_id = IF error THEN @ ELSE threads.call[t].threadId,
         !.call = ThreadReturn(t, threads.call[t].threadId)]
  /\ ThreadsUnchanged

NextThreads ==
  \E t \in Ticks : ThreadBegin(t) \/ ThreadRead(t) \/ ThreadCreate(t) \/ ThreadSave(t)

SpecThreads == InitThreads /\ [][NextThreads]_vars

\* ------------------------------------------- executeOpenAIRun(WithModel)
\* const maxAttempts = 30
maxAttempts == 30

\* The two functions: executeOpenAIRun posts { assistant_id }, and
\* executeOpenAIRunWithModel posts { model, temperature, max_tokens,
\* instructions }; from the post on their code is the same.
RunVariants == {"assistant", "model"}

\* The statuses the provider reports for a run.
RunStatuses == {"queued", "in_progress", "requires_action", "cancelling", "cancelled",
                "failed", "completed", "expired"}

\* The requests of a run that can fail (axios rejects on a timeout, a
\* network error and every status outside 2xx).
RunCalls == {"post", "poll", "final"}

\* A caller is about to call one of the two functions; which of its
\* requests can fail is fixed but unknown.
InitRun ==
  /\ AtRest
  /\ gen = NoGen
  /\ credits = NoCredits
  /\ threads = NoThreads
  /\ pending = NoPending
  /\ creditsUsage = NoUsage
  /\ reminder = NoReminder
  /\ totalFollowUpsSent = 0
  /\ \E variant \in RunVariants, failing \in SUBSET RunCalls :
       run = [pc |-> "post", variant |-> variant, failing |-> failing, status |-> "none",
              attempts |-> 0, success |-> FALSE, error |-> "none"]

RunSet(fields) ==
  [f \in DOMAIN run |-> IF f \in DOMAIN fields THEN fields[f] ELSE run[f]]

RunUnchanged ==
  UNCHANGED <<queue, now, last_message_at, accepted, exec, totalExecutions,
              inBusinessHours, faults, gen, totalErrors, credits, threads, totalFollowUpsSent, reminder, creditsUsage, pending>>

\* The outcomes of a request: it rejects when it can fail, or it answers.
RunFails(call) == IF call \in run.failing THEN {TRUE, FALSE} ELSE {FALSE}

\* The loop's condition as it would read without the bound on attempts.
LoopsUntilSettled(status, attempts) ==
  status # "completed" /\ status # "failed" /\ attempts <= maxAttempts

\* while (status !== 'completed' && status !== 'failed' && attempts < maxAttempts)
Loops(status, attempts) ==
  status # "completed" /\ status # "failed" /\ attempts < maxAttempts

\* const runResponse = await axios.post(.../runs, runPayload, ...);
\* let status = runResponse.data.status; let attempts = 0
RunPost ==
  /\ run.pc = "post"
  /\ \E rejected \in RunFails("post"), status \in RunStatuses :
       run' = IF rejected THEN RunSet([pc |-> "catch", error |-> "post"])
              ELSE RunSet([pc |-> "loop", status |-> status])
  /\ RunUnchanged

\* One pass of the loop: the wait, attempts++, the status request, and
\* the return inside the loop when the status read is failed.
RunPoll ==
  /\ run.pc = "loop"
  /\ Loops(run.status, run.attempts)
  /\ \E rejected \in RunFails("poll"), status \in RunStatuses :
       run' = IF rejected
                THEN RunSet([pc |-> "catch", attempts |-> run.attempts + 1, error |-> "poll"])
              ELSE IF status = "failed"
                THEN RunSet([pc |-> "done", attempts |-> run.attempts + 1, status |-> status,
                             success |-> FALSE, error |-> "run_failed"])
              ELSE RunSet([attempts |-> run.attempts + 1, status |-> status])
  /\ RunUnchanged

\* After the loop: the request for the usage and success when the status
\* is completed, 'Timeout ou falha no run' otherwise.
RunSettle ==
  /\ run.pc = "loop"
  /\ ~Loops(run.status, run.attempts)
  /\ IF run.status = "completed"
       THEN \E rejected \in RunFails("final") :
              run' = IF rejected THEN RunSet([pc |-> "catch", error |-> "final"])
                     ELSE RunSet([pc |-> "done", success |-> TRUE])
       ELSE run' = RunSet([pc |-> "done", success |-> FALSE, error |-> "timeout"])
  /\ RunUnchanged

\* } catch (error) { log(...); return { success: false, error: error.message } }
RunCatch ==
  /\ run.pc = "catch"
  /\ run' = RunSet([pc |-> "done", success |-> FALSE])
  /\ RunUnchanged

NextRun == RunPost \/ RunPoll \/ RunSettle \/ RunCatch

\* Every await of the function settles (each request carries a timeout,
\* the wait is a one-second timer), so a call that can take a step takes it.
SpecRun == InitRun /\ [][NextRun]_vars /\ WF_vars(NextRun)

\* ------------------------------------------ processAppointmentReminder
\* What the injected generatePersonalizedMessage can do in a call: throw,
\* return nothing (undefined, null or the empty text), return the text it
\* was given, or return another text.
PersonalizationOutcomes == {"throws", "nothing", "same", "text"}

\* The assignment as it would read without the test of the returned value:
\* finalMessage = personalizedMessage.
PersonalizedUntested(outcome) ==
  IF outcome = "text" THEN "ai"
  ELSE IF outcome = "nothing" THEN "none"
  ELSE "substituted"

\* try { const personalizedMessage = await generatePersonalizedMessage(...);
\* if (personalizedMessage && personalizedMessage !== finalMessage)
\* finalMessage = personalizedMessage } catch (aiError) { (logged) }
Personalized(outcome) == IF outcome = "text" THEN "ai" ELSE "substituted"

\* Either a call of processAppointmentReminder begins for a row that was
\* pulled as pending (and may have changed since), or a call of
\* processFollowUp stands before its personalization, in the processor
\* (src/unnamed/part_001) or in the server.
InitPersonalize ==
  /\ queue = <<TriggerRow>>
  /\ now = 2
  /\ last_message_at = 0
  /\ accepted = [i \in 1..MaxRows |-> 0]
  /\ totalExecutions = 1
  /\ inBusinessHours = TRUE
  /\ faults = Calls
  /\ gen = NoGen
  /\ totalErrors = 0
  /\ credits = NoCredits
  /\ threads = NoThreads
  /\ pending = NoPending
  /\ creditsUsage = NoUsage
  /\ run = NoRun
  /\ totalFollowUpsSent = 0
  /\ \/ /\ exec = [t \in Ticks |-> IdleExec]
        /\ \E status \in {"pending", "cancelled"}, attempts \in 0..2 :
             reminder = [pc |-> "reread", status |-> status, attempts |-> attempts,
                         max_attempts |-> 2, pulled |-> attempts,
                         execution_error |-> "none", finalMessage |-> "none",
                         outcome |-> "none", instanceName |-> "none", accepted |-> 0,
                         success |-> FALSE, skipped |-> FALSE, error |-> "none",
                         logged |-> FALSE]
     \/ /\ reminder = NoReminder
        /\ \E pc \in {"personalize", "generate"} :
             exec = [t \in Ticks |-> IF t = 1
                       THEN [IdleExec EXCEPT !.pc = pc, !.followUp =
                               [id |-> 1, rule |-> "r1", attempts |-> 0, max_attempts |-> 2]]
                       ELSE IdleExec]

ReminderSet(fields) ==
  [f \in DOMAIN reminder |-> IF f \in DOMAIN fields THEN fields[f] ELSE reminder[f]]

ReminderUnchanged ==
  UNCHANGED <<queue, now, last_message_at, accepted, exec, totalExecutions,
              inBusinessHours, faults, gen, totalErrors, credits, threads, run,
              totalFollowUpsSent, creditsUsage, pending>>

ReminderThrow(message) == ReminderSet([pc |-> "catch", error |-> message])

\* The re-read of status and attempts and the two checks made on it.
ReminderReRead ==
  /\ reminder.pc = "reread"
  /\ \E statusError \in BOOLEAN :
       reminder' =
         IF statusError THEN ReminderThrow("not_found")
         ELSE IF reminder.status # "pending"
           THEN ReminderSet([pc |-> "finally", success |-> TRUE, skipped |-> TRUE])
         ELSE IF reminder.attempts >= reminder.max_attempts
           THEN ReminderSet([pc |-> "finally", status |-> "failed",
                             execution_error |-> "max_attempts", success |-> FALSE])
         ELSE ReminderSet([pc |-> "agent"])
  /\ ReminderUnchanged

\* The agent is loaded, the date and time are formatted and the
\* placeholders of the template are replaced.
ReminderAgent ==
  /\ reminder.pc = "agent"
  /\ \E agentError \in BOOLEAN :
       reminder' = IF agentError THEN ReminderThrow("agent")
                   ELSE ReminderSet([pc |-> "personalize", finalMessage |-> "substituted"])
  /\ ReminderUnchanged

\* The personalization inside its own try, then the lookup of the
\* connected instance with 'internal_system' in its place when there is none.
ReminderPersonalize ==
  /\ reminder.pc = "personalize"
  /\ \E outcome \in PersonalizationOutcomes, noInstance \in BOOLEAN :
       reminder' = ReminderSet([pc |-> "send", outcome |-> outcome,
                                finalMessage |-> Personalized(outcome),
                                instanceName |-> IF noInstance THEN "internal_system"
                                                 ELSE "connected"])
  /\ ReminderUnchanged

\* sendWhatsAppMessage(instanceName, reminder.contact_phone, finalMessage)
ReminderSend ==
  /\ reminder.pc = "send"
  /\ \E refused \in BOOLEAN :
       reminder' = IF refused THEN ReminderThrow("send")
                   ELSE ReminderSet([pc |-> "marksent", accepted |-> reminder.accepted + 1])
  /\ ReminderUnchanged

\* update({ status: 'sent', attempts: reminder.attempts + 1, ... })
ReminderMarkSent ==
  /\ reminder.pc = "marksent"
  /\ \E updateError \in BOOLEAN :
       reminder' = IF updateError THEN ReminderThrow("sent_write")
                   ELSE ReminderSet([pc |-> "finally", status |-> "sent",
                                     attempts |-> reminder.pulled + 1, success |-> TRUE])
  /\ ReminderUnchanged

\* catch (error): update({ attempts: newAttempts, status, execution_error })
\* with newAttempts = reminder.attempts + 1; the result of the update is not
\* looked at.
ReminderCatch ==
  /\ reminder.pc = "catch"
  /\ \E written \in BOOLEAN :
       reminder' =
         IF written
           THEN ReminderSet([pc |-> "finally", success |-> FALSE,
                             attempts |-> reminder.pulled + 1,
                             status |-> IF reminder.pulled + 1 >= reminder.max_attempts
                                          THEN "failed" ELSE "pending",
                             execution_error |-> reminder.error])
           ELSE ReminderSet([pc |-> "finally", success |-> FALSE])
  /\ ReminderUnchanged

\* finally: the insert into appointment_reminder_logs inside its own try
ReminderFinally ==
  /\ reminder.pc = "finally"
  /\ \E logError \in BOOLEAN :
       reminder' = ReminderSet([pc |-> "done", logged |-> ~logError])
  /\ ReminderUnchanged

NextReminder ==
  \/ ReminderReRead
  \/ ReminderAgent
  \/ ReminderPersonalize
  \/ ReminderSend
  \/ ReminderMarkSent
  \/ ReminderCatch
  \/ ReminderFinally

\* The call of processFollowUp from its personalization on.
NextPersonalize ==
  \/ NextReminder
  \/ ProcessorGenerate(1)
  \/ Generate(1)
  \/ SendWhatsAppMessage(1)
  \/ MarkSent(1)
  \/ RecordMessage(1)
  \/ Catch(1)
  \/ Finally(1)
  \/ EndRun(1)

SpecPersonalize == InitPersonalize /\ [][NextPersonalize]_vars

\* ------------------------------------------- the template substitutions
\* The words a template is built from: a word of text and the placeholders.
TemplateWords == {"Oi", "{nome}", "{data}", "{horario}"}

\* The templates of at most MaxLen words.
BoundedTemplates == UNION {[1..n -> TemplateWords] : n \in 0..MaxLen}

\* The replacement string as replace() expands it for this match, with this
\* text before it and this text after it.
RECURSIVE ExpandMatch(_, _, _, _)
ExpandMatch(replacement, match, before, after) ==
  IF replacement = <<>> THEN <<>>
  ELSE LET word == Head(replacement)
           text == IF word = "$'" THEN after
                   ELSE IF word = "$<" THEN before
                   ELSE IF word = "$&" THEN <<match>>
                   ELSE <<word>>
       IN text \o ExpandMatch(Tail(replacement), match, before, after)

\* text.replace(/{placeholder}/g, replacement) from word i on: every
\* occurrence is replaced, each expansion made on the text as it was.
RECURSIVE ReplaceFrom(_, _, _, _)
ReplaceFrom(text, placeholder, replacement, i) ==
  IF i > Len(text) THEN <<>>
  ELSE (IF text[i] = placeholder
          THEN ExpandMatch(replacement, placeholder, SubSeq(text, 1, i - 1),
                           SubSeq(text, i + 1, Len(text)))
          ELSE <<text[i]>>)
       \o ReplaceFrom(text, placeholder, replacement, i + 1)

ReplaceAll(text, placeholder, replacement) == ReplaceFrom(text, placeholder, replacement, 1)

\* appointmentDate.toLocaleDateString('pt-BR') and toLocaleTimeString('pt-BR',
\* { hour: '2-digit', minute: '2-digit' }): digits, slashes and a colon.
dataFormatada == <<"06/11/2026">>

horarioFormatado == <<"09:00">>

\* The five replacements of processAppointmentReminder, in their order; a
\* missing name, title or location leaves its placeholder in place.
ReminderSubstituted(message_template, contact_name, appointment_title, appointment_location) ==
  LET named == IF contact_name = <<>> THEN message_template
               ELSE ReplaceAll(message_template, "{nome}", contact_name)
      titled == IF appointment_title = <<>> THEN named
                ELSE ReplaceAll(named, "{appointment_title}", appointment_title)
      dated == ReplaceAll(titled, "{data}", dataFormatada)
      timed == ReplaceAll(dated, "{horario}", horarioFormatado)
  IN IF appointment_location = <<>> THEN timed
     ELSE ReplaceAll(timed, "{local}", appointment_location)

\* Either a call of the generation function is about to begin for a
\* template, or processAppointmentReminder is about to substitute one.
InitSubstitute ==
  /\ AtRest
  /\ credits = NoCredits
  /\ threads = NoThreads
  /\ pending = NoPending
  /\ creditsUsage = NoUsage
  /\ run = NoRun
  /\ totalFollowUpsSent = 0
  /\ \E template \in BoundedTemplates, first_name \in Names :
       \/ /\ reminder = NoReminder
          /\ \E variant \in {"threads", "completion"} :
               gen = [NoGen EXCEPT !.pc = IF variant = "threads" THEN "key" ELSE "gate",
                                   !.variant = variant, !.template = template,
                                   !.first_name = first_name]
       \/ /\ gen = NoGen
          /\ \E appointment_title \in {<<>>, <<"Consulta">>},
                appointment_location \in {<<>>, <<"Sala">>} :
               reminder = [pc |-> "substitute", message_template |-> template,
                           contact_name |-> first_name,
                           appointment_title |-> appointment_title,
                           appointment_location |-> appointment_location,
                           finalMessage |-> <<>>]

\* let finalMessage = reminder.message_template, and the replacements
ReminderSubstitute ==
  /\ reminder.pc = "substitute"
  /\ reminder' = ReminderSet([pc |-> "personalize", finalMessage |->
                   ReminderSubstituted(reminder.message_template, reminder.contact_name,
                                       reminder.appointment_title,
                                       reminder.appointment_location)])
  /\ ReminderUnchanged

\* --------------------------------------------- processOpenAICreditsUsage
\* What an awaited request of the function can do: answer with data, answer
\* with an error, or reject.
RequestOutcomes == {"data", "error", "rejects"}

\* What the consume_credits function answers as data.
LedgerData == {"true", "false", "null"}

\* The tokens a caller reports.
TotalTokens == 1..2

\* return data === true
Returned(data, drift) == data = "true"

\* A caller is about to call processOpenAICreditsUsage(companyId, totalTokens, ...).
InitUsage ==
  /\ AtRest
  /\ gen = NoGen
  /\ credits = NoCredits
  /\ threads = NoThreads
  /\ pending = NoPending
  /\ run = NoRun
  /\ reminder = NoReminder
  /\ totalFollowUpsSent = 0
  /\ \E totalTokens \in TotalTokens :
       creditsUsage = [pc |-> "before", totalTokens |-> totalTokens, balanceError |-> FALSE,
                saldoAntes |-> 0, ledger |-> "none", balanceAfterError |-> FALSE,
                saldoDepois |-> 0, drift |-> FALSE, caught |-> "none", ret |-> "none"]

UsageSet(fields) ==
  [f \in DOMAIN creditsUsage |-> IF f \in DOMAIN fields THEN fields[f] ELSE creditsUsage[f]]

UsageUnchanged ==
  UNCHANGED <<queue, now, last_message_at, accepted, exec, totalExecutions,
              inBusinessHours, faults, gen, totalErrors, credits, threads, run,
              totalFollowUpsSent, reminder, pending>>

\* The read of company_credits.balance before the consumption; its error is
\* logged only (saldoAntes = creditsBefore?.balance || 0).
UsageBalanceBefore ==
  /\ creditsUsage.pc = "before"
  /\ \E outcome \in RequestOutcomes, balance \in Balances :
       creditsUsage' = IF outcome = "rejects" THEN UsageSet([pc |-> "catch", caught |-> "before"])
                ELSE IF outcome = "error"
                  THEN UsageSet([pc |-> "consume", balanceError |-> TRUE])
                ELSE UsageSet([pc |-> "consume", saldoAntes |-> balance])
  /\ UsageUnchanged

\* supabase.rpc('consume_credits', ...); if (error) return false
UsageConsume ==
  /\ creditsUsage.pc = "consume"
  /\ \E outcome \in RequestOutcomes, data \in LedgerData :
       creditsUsage' = IF outcome = "rejects" THEN UsageSet([pc |-> "catch", caught |-> "consume"])
                ELSE IF outcome = "error"
                  THEN UsageSet([pc |-> "done", ledger |-> "error", ret |-> FALSE])
                ELSE UsageSet([pc |-> "after", ledger |-> data])
  /\ UsageUnchanged

\* The read of the balance after the consumption and the comparison
\* saldoAntes - saldoDepois !== totalTokens, both logged only; then
\* return data === true.
UsageBalanceAfter ==
  /\ creditsUsage.pc = "after"
  /\ \E outcome \in RequestOutcomes, balance \in Balances :
       creditsUsage' =
         IF outcome = "rejects" THEN UsageSet([pc |-> "catch", caught |-> "after"])
         ELSE IF outcome = "error"
           THEN UsageSet([pc |-> "done", balanceAfterError |-> TRUE,
                          ret |-> Returned(creditsUsage.ledger, FALSE)])
         ELSE LET drift == creditsUsage.saldoAntes - balance # creditsUsage.totalTokens
              IN UsageSet([pc |-> "done", saldoDepois |-> balance, drift |-> drift,
                           ret |-> Returned(creditsUsage.ledger, drift)])
  /\ UsageUnchanged

\* catch (error) { log(...); return false }
UsageCatch ==
  /\ creditsUsage.pc = "catch"
  /\ creditsUsage' = UsageSet([pc |-> "done", ret |-> FALSE])
  /\ UsageUnchanged

NextUsage == UsageBalanceBefore \/ UsageConsume \/ UsageBalanceAfter \/ UsageCatch

SpecUsage == InitUsage /\ [][NextUsage]_vars

\* ------------------------------- getPendingFollowUps of the processor
\* The conversations of the rows: one the agent may write to, one whose
\* follow-ups are paused in its metadata, one without an agent.
ValidConversation ==
  [ai_agent_id |-> TRUE, ai_enabled |-> TRUE, assigned_to |-> FALSE,
   follow_up_paused |-> FALSE]

PausedConversation == [ValidConversation EXCEPT !.follow_up_paused = TRUE]

UnassignedConversation == [ValidConversation EXCEPT !.ai_agent_id = FALSE]

\* A row of follow_up_queue joined with its conversation.
PendingRows ==
  [scheduled_at : 1..2, status : {"pending"}, attempts : {0}, max_attempts : {2},
   conversations : {ValidConversation, PausedConversation, UnassignedConversation}]

\* The table when the service starts: at most MaxPendingRows rows, all
\* pending (some of them due later than others), and nothing returned yet.
InitPending ==
  /\ AtRest
  /\ gen = NoGen
  /\ credits = NoCredits
  /\ threads = NoThreads
  /\ run = NoRun
  /\ reminder = NoReminder
  /\ creditsUsage = NoUsage
  /\ totalFollowUpsSent = 0
  /\ \E n \in 1..MaxPendingRows : \E rows \in [1..n -> PendingRows] :
       pending = [pc |-> "query", rows |-> rows, followUps |-> <<>>,
                  validFollowUps |-> <<>>, returned |-> {}]

PendingSet(fields) ==
  [f \in DOMAIN pending |-> IF f \in DOMAIN fields THEN fields[f] ELSE pending[f]]

PendingUnchanged ==
  UNCHANGED <<queue, now, last_message_at, accepted, exec, totalExecutions,
              inBusinessHours, faults, gen, totalErrors, credits, threads, run,
              totalFollowUpsSent, reminder, creditsUsage>>

\* .eq('status', 'pending').lte('scheduled_at', now)
\* .not('conversations.ai_agent_id', 'is', null).neq('conversations.ai_enabled', false)
Selected ==
  {i \in DOMAIN pending.rows :
     /\ pending.rows[i].status = "pending"
     /\ pending.rows[i].scheduled_at <= now
     /\ pending.rows[i].conversations.ai_agent_id
     /\ pending.rows[i].conversations.ai_enabled}

\* .order('scheduled_at', { ascending: true }), ties in insertion order
RECURSIVE OrderedIds(_)
OrderedIds(S) ==
  IF S = {} THEN <<>>
  ELSE LET first == CHOOSE i \in S : \A j \in S :
                      \/ pending.rows[i].scheduled_at < pending.rows[j].scheduled_at
                      \/ pending.rows[i].scheduled_at = pending.rows[j].scheduled_at /\ i <= j
       IN <<first>> \o OrderedIds(S \ {first})

\* .limit(config.maxFollowUpsPerExecution)
Limited(ids) == SubSeq(ids, 1, Min(Len(ids), PullLimit))

\* The filter of the rows the query returned: false for a row whose
\* conversation has follow_up_paused, or is assigned with ai_enabled false.
Valid(i) ==
  LET conversation == pending.rows[i].conversations
  IN /\ ~conversation.follow_up_paused
     /\ ~(conversation.assigned_to /\ ~conversation.ai_enabled)

\* The query of a tick, or [] when it answers with an error.
PendingQuery ==
  /\ pending.pc = "query"
  /\ \E error \in BOOLEAN :
       pending' = IF error THEN PendingSet([pc |-> "process", followUps |-> <<>>,
                                            validFollowUps |-> <<>>])
                  ELSE PendingSet([pc |-> "filter",
                                   followUps |-> Limited(OrderedIds(Selected))])
  /\ PendingUnchanged

\* const validFollowUps = (followUps || []).filter(...); return enrichedFollowUps
PendingFilter ==
  /\ pending.pc = "filter"
  /\ LET validFollowUps == SelectSeq(pending.followUps, Valid)
     IN pending' = PendingSet([pc |-> "process", validFollowUps |-> validFollowUps,
                               returned |-> pending.returned
                                 \cup {validFollowUps[k] : k \in 1..Len(validFollowUps)}])
  /\ PendingUnchanged

\* What processFollowUp leaves of a returned row: sent, failed or cancelled,
\* or pending with one more attempt while that is below max_attempts.
Processed(row) ==
  {[row EXCEPT !.status = status] : status \in {"sent", "cancelled"}}
    \cup {[row EXCEPT !.attempts = row.attempts + 1,
                      !.status = IF row.attempts + 1 >= row.max_attempts
                                   THEN "failed" ELSE "pending"]}

\* The returned items are processed one by one; the rows that were not
\* returned are not written.  Then the tick is over and the next one queries.
PendingProcess ==
  /\ pending.pc = "process"
  /\ \E after \in [DOMAIN pending.rows -> UNION {Processed(pending.rows[i]) : i \in DOMAIN pending.rows}
                                            \cup {pending.rows[i] : i \in DOMAIN pending.rows}] :
       /\ \A i \in DOMAIN pending.rows :
            IF \E k \in 1..Len(pending.validFollowUps) : pending.validFollowUps[k] = i
              THEN after[i] \in Processed(pending.rows[i])
              ELSE after[i] = pending.rows[i]
       /\ pending' = PendingSet([pc |-> "query", followUps |-> <<>>,
                                 validFollowUps |-> <<>>, rows |-> after])
  /\ PendingUnchanged

NextPending == PendingQuery \/ PendingFilter \/ PendingProcess

\* The query of a tick answers with rows.
QueryAnswers == PendingQuery /\ pending'.pc = "filter"

\* The schedule fires again and again, each call of a tick settles, and the
\* query does not answer with an error forever.
SpecPending ==
  InitPending /\ [][NextPending]_vars /\ WF_vars(NextPending) /\ SF_vars(QueryAnswers)

\* ----------------------------------------------------------- behaviours
Step(t) ==
  \/ Fire(t)
  \/ DetectBegin(t)
  \/ FindOrphan(t)
  \/ CreateOrphan(t)
  \/ VerifyOrphans(t)
  \/ EndRun(t)
  \/ ReRead(t)
  \/ MaxAttemptsFail(t)
  \/ Guards(t)
  \/ Generate(t)
  \/ SendWhatsAppMessage(t)
  \/ MarkSent(t)
  \/ RecordMessage(t)
  \/ Catch(t)
  \/ Finally(t)

\* Runs of executeFollowUps that may overlap, during business hours.
Next == Advance \/ \E t \in Ticks : Step(t)

Spec == InitOpen /\ [][Next]_vars

\* One run at a time: a single service instance whose runs never overlap,
\* inside or outside business hours.
NextSeq == Advance \/ Step(1) \/ InsufficientCredits(1) \/ Defer(1)

SpecSeq == Init /\ [][NextSeq]_vars

\* One run over a list of two items; the queue has no room for an orphan.
NextBatch ==
  \/ Advance
  \/ Fire(1)
  \/ DetectBegin(1)
  \/ FindOrphan(1)
  \/ VerifyOrphans(1)
  \/ EndRun(1)
  \/ ReRead(1)
  \/ MaxAttemptsFail(1)
  \/ Guards(1)
  \/ InsufficientCredits(1)
  \/ Defer(1)
  \/ Generate(1)
  \/ SendWhatsAppMessage(1)
  \/ MarkSent(1)
  \/ RecordMessage(1)
  \/ Catch(1)
  \/ Finally(1)

SpecBatch == InitBatch /\ [][NextBatch]_vars

\* One call of processFollowUp from its business-hours check on, at an hour
\* of the server's day and in a company timezone.
NextHours ==
  \/ BusinessHoursCheck(1)
  \/ DeferHours(1)
  \/ Generate(1)
  \/ SendWhatsAppMessage(1)
  \/ MarkSent(1)
  \/ RecordMessage(1)
  \/ Catch(1)
  \/ Finally(1)
  \/ EndRun(1)

SpecHours == InitHours /\ [][NextHours]_vars

\* One call of the generation function, in either revision, with every
\* outcome of every call it makes.
NextGenerate ==
  \/ KeyLookup
  \/ CreditGate
  \/ OpenThread
  \/ AppendMessage
  \/ ExecuteRun
  \/ LatestMessage
  \/ DebitUsage
  \/ Completion
  \/ DebitCompletion
  \/ GenCatch

SpecGenerate == InitGenerate /\ [][NextGenerate]_vars

\* A call of the generation function or the substitutions of a reminder,
\* for every template of the bounded set.
NextSubstitute == NextGenerate \/ ReminderSubstitute

SpecSubstitute == InitSubstitute /\ [][NextSubstitute]_vars

\* One run at a time of a loop that calls the processor's processFollowUp:
\* the send, the sent write, the message record, the catch and the finally
\* of the processor read as those of the server do.
StepProcessor(t) ==
  \/ Fire(t)
  \/ DetectBegin(t)
  \/ FindOrphan(t)
  \/ CreateOrphan(t)
  \/ VerifyOrphans(t)
  \/ EndRun(t)
  \/ ProcessorReRead(t)
  \/ CancelFollowUp(t)
  \/ MaxAttemptsFail(t)
  \/ ValidateAgent(t)
  \/ ProcessorGenerate(t)
  \/ SendWhatsAppMessage(t)
  \/ MarkSent(t)
  \/ RecordMessage(t)
  \/ Catch(t)
  \/ Finally(t)

NextProcessor == Advance \/ StepProcessor(1)

SpecProcessor == Init /\ [][NextProcessor]_vars

\* ------------------------------------------------------------ properties
\* The step of tick t that begins processFollowUp with the re-read.
ReReadStep(t) ==
  /\ At(t, "next")
  /\ exec[t].allFollowUps # <<>>
  /\ exec'[t] # exec[t]

\* The rows of rule r before and after a step.
Created(r) == Cardinality(RowsFor(r)') > Cardinality(RowsFor(r))

\* C1: the gateway accepts a message for an item at most once, whatever the
\* interleaving of the runs that hold a snapshot of it.
C1_AtMostOnce == \A i \in 1..MaxRows : accepted[i] <= 1

\* C2: when the re-read gives status sent or cancelled, the call returns
\* {success: true, skipped: true, reason: 'status_changed'} with no
\* generation and no send, and the rows and the gateway are as before; what
\* is left of the call (the log) changes neither.
C2_SkipWhenStatusChanged ==
  [][\A t \in Ticks :
       /\ ( /\ ReReadStep(t)
            /\ exec'[t].pc # "catch"
            /\ queue[Head(exec[t].allFollowUps).id].status \in {"sent", "cancelled"} )
          => /\ exec'[t].pc = "finally"
             /\ exec'[t].ret = [success |-> TRUE, skipped |-> TRUE, deferred |-> FALSE,
                                reason |-> "status_changed"]
             /\ ~exec'[t].generated
             /\ ~exec'[t].sent
             /\ queue' = queue
             /\ accepted' = accepted
       /\ ( /\ At(t, "finally")
            /\ exec[t].ret.skipped
            /\ exec'[t] # exec[t] )
          => /\ exec'[t].pc = "next"
             /\ ~exec[t].generated
             /\ ~exec[t].sent
             /\ queue' = queue
             /\ accepted' = accepted]_vars

\* A call has skipped an item that another run had marked sent meanwhile.
C2_Witness ==
  \E t \in Ticks : /\ At(t, "finally")
                   /\ exec[t].ret.reason = "status_changed"
                   /\ Row(t).status = "sent"

\* C3: attempts <= max_attempts for every row, and a send is accepted and
\* attempts is written only for a row whose stored status is pending.
C3_AttemptsOnlyWhilePending ==
  /\ [](\A i \in Ids : queue[i].attempts <= queue[i].max_attempts)
  /\ [][\A i \in Ids :
          (accepted'[i] > accepted[i] \/ queue'[i].attempts # queue[i].attempts)
            => queue[i].status = "pending"]_vars

\* C4: the stored attempts of a row never decreases, and a pending row has
\* attempts <= max_attempts.
C4_AttemptsMonotone ==
  /\ [][\A i \in Ids : queue'[i].attempts >= queue[i].attempts]_vars
  /\ [](\A i \in Ids : queue[i].status = "pending"
                         => queue[i].attempts <= queue[i].max_attempts)

\* C5: at most one row of a (conversation, rule) pair has status sent.
C5_OneSentPerRule == \A r \in RuleIds : Cardinality(SentFor(r)) <= 1

\* C6: no row is created for a (conversation, rule) pair that has a sent row.
C6_NoOrphanWhenSent ==
  [][\A r \in RuleIds : Created(r) => SentFor(r) = {}]_vars

\* C7: no row is created for a (conversation, rule) pair that has a failed
\* or cancelled row.
C7_NoResurrection ==
  [][\A r \in RuleIds :
       Created(r) => \A i \in RowsFor(r) : queue[i].status \notin {"failed", "cancelled"}]_vars

\* C8: run after run with nothing sent in between, orphan detection creates
\* a row for a (conversation, rule) pair only while the pair has none: one
\* run creates at most one, and a later run creates none.
C8_OrphanDetectionIdempotent ==
  /\ [](\A r \in RuleIds : Cardinality(RowsFor(r)) <= 1)
  /\ [](\A t \in Ticks : Len(exec[t].orphanedFollowUps) <= 1)
  /\ [][\A r \in RuleIds : Created(r) => RowsFor(r) = {}]_vars

\* A detection run went over a rule whose delay has gone by, found the
\* orphan an earlier run had created, and created nothing.
C8_Witness ==
  \E t \in Ticks :
    /\ At(t, "verify")
    /\ faults = {}
    /\ exec[t].orphanedFollowUps = <<>>
    /\ exec[t].detNow - exec[t].detLast >= 2
    /\ \E i \in RowsFor("r1") : queue[i].created_by = "orphan_sync"

C10_CatchIncrementsByOne ==
  [][\A t \in Ticks :
       ( /\ At(t, "catch")
         /\ exec'[t] # exec[t]
         /\ exec[t].error \in {"context", "agent", "instance", "send"} )
         => LET i == exec[t].followUp.id IN
              /\ queue'[i].attempts = queue[i].attempts + 1
              /\ queue'[i].execution_error = exec[t].error
              /\ queue'[i].status = IF queue'[i].attempts >= queue[i].max_attempts
                                      THEN "failed" ELSE "pending"
              /\ exec'[t].ret = [success |-> FALSE, skipped |-> FALSE, deferred |-> FALSE,
                                 reason |-> exec[t].error]]_vars

PausedReasons == {"agent_paused", "follow_ups_paused"}

C13_DeferralIntoBusinessHours ==
  [][\A t \in Ticks :
       (At(t, "deferhours") /\ exec'[t] # exec[t])
         => LET i == exec[t].followUp.id IN
              /\ exec'[t].ret.success
              /\ exec'[t].ret.deferred
              /\ queue'[i].status = "pending"
              /\ queue'[i].attempts = queue[i].attempts
              /\ ~exec'[t].generated
              /\ ~exec'[t].sent
              /\ accepted' = accepted
              /\ queue'[i].scheduled_at > queue[i].scheduled_at
              /\ IsBusinessHours(queue'[i].scheduled_at, exec[t].timezone)]_vars

\* C14: a call that found the credits insufficient ends with the row failed
\* under the insufficient-credits error, whatever attempts and max_attempts
\* are, having generated and sent nothing.
C14_InsufficientCreditsIsTerminal ==
  \A t \in Ticks :
    (At(t, "finally") /\ exec[t].ret.reason = "credits")
      => /\ Row(t).status = "failed"
         /\ Row(t).execution_error = "credits"
         /\ ~exec[t].generated
         /\ ~exec[t].sent

\* The calls to the LLM provider among the events of a generation call.
ProviderEvents == {"thread_create", "message_append", "run", "message_list", "completion"}

\* C15: a call of the generation function with a non-empty template ends by
\* returning a non-empty text, whatever fails on the way; when it did not get
\* a text from the provider, the text is the template with its placeholder
\* substituted.
C15_FallbackTotality ==
  gen.pc = "done"
    => /\ gen.result # <<>>
       /\ gen.result \in {<<"ai">>, Substituted(gen.template, gen.first_name)}

Events == {gen.events[k] : k \in 1..Len(gen.events)}

\* C16: once the credit gate has reported a balance below the estimate, the
\* call is over: no call to the provider was made, nothing was debited, the
\* insufficient-credits notification was issued, and the result is the
\* template with its placeholder substituted.
C16_CreditGateClosed ==
  gen.gate = "insufficient"
    => /\ gen.pc = "done"
       /\ Events \cap ProviderEvents = {}
       /\ "debit" \notin Events
       /\ gen.debited = "none"
       /\ "notifyZionicCreditsInsufficient" \in Events
       /\ gen.notified \in {"zionic_credits_insufficient", "none"}
       /\ gen.result = Substituted(gen.template, gen.first_name)

\* The gate reported a shortage, the notification was stored and the call
\* returned the substituted template.
C16_Witness ==
  /\ gen.gate = "insufficient"
  /\ gen.pc = "done"
  /\ gen.notified = "zionic_credits_insufficient"
  /\ gen.result = Substituted(gen.template, gen.first_name)
  /\ gen.result # <<>>

\* C17: the ledger is debited only after the provider was called and gave a
\* message that the call returns, and with the provider's token usage, never
\* with the estimate; a call that ends with the template has debited nothing.
C17_DebitOnlyActualUsage ==
  /\ gen.debited \in {"none", "usage"}
  /\ "debit" \in Events
       => /\ gen.events[Len(gen.events)] = "debit"
          /\ Events \cap ProviderEvents # {}
          /\ gen.message = "text"
          /\ gen.usage
          /\ gen.pc = "done" => gen.result = <<"ai">>
  /\ (gen.pc = "done" /\ gen.result # <<"ai">>) => gen.debited = "none"

\* A call of processFollowUp is in progress in run t.
InCall(t) == exec[t].followUp # NoItem

\* C18: a call of processFollowUp ends only by the step that writes the
\* execution log, whatever path it took, and that step is taken once; the
\* log write changes no row and no count of accepted messages, and whether
\* it fails or not the caller gets the same result: the value the call
\* returned is counted and the loop goes on, or the exception that had
\* already left the catch block ends the run.
C18_OneLogRowPerCall ==
  [][\A t \in Ticks :
       /\ (InCall(t) /\ ~InCall(t)') => At(t, "finally")
       /\ (exec'[t].logged /\ ~exec[t].logged) => At(t, "finally")
       /\ (At(t, "finally") /\ exec'[t] # exec[t])
            => /\ ~InCall(t)'
               /\ queue' = queue
               /\ accepted' = accepted
               /\ last_message_at' = last_message_at
               /\ IF exec[t].escaped
                    THEN exec'[t] = IdleExec
                    ELSE /\ exec'[t].pc = "next"
                         /\ exec'[t].allFollowUps = exec[t].allFollowUps
                         /\ totalErrors' = totalErrors
                         /\ exec'[t].failed =
                              exec[t].failed + (IF exec[t].ret.success THEN 0 ELSE 1)]_vars

\* A call returned a failure, its log write failed, and the run goes on.
C18_Witness ==
  \E t \in Ticks :
    /\ At(t, "next")
    /\ exec[t].failed >= 1
    /\ ~exec[t].logged
    /\ "log" \in faults

\* C19: when an exception leaves the call for one item of a run's list (the
\* update of the catch block raised it) while items remain, the run goes on
\* with the remaining items: none of them is dropped.
C19_BatchSurvivesEscape ==
  [][\A t \in Ticks :
       (/\ At(t, "finally")
        /\ exec[t].escaped
        /\ exec[t].allFollowUps # <<>>
        /\ exec'[t] # exec[t])
         => /\ exec'[t].pc = "next"
            /\ exec'[t].allFollowUps = exec[t].allFollowUps]_vars

\* Something failed inside run t: its pull of the pending items, a call that
\* returned a failure, or a call that an exception left.
FailedInside(t) == exec[t].pullError \/ exec[t].failed > 0 \/ exec[t].escaped

\* C20: a run inside which something failed (the pull of the pending items,
\* for one) ends with stats.totalErrors increased and with nothing of it
\* left behind, so that the next run starts as any other.
C20_FailureCounted ==
  [][\A t \in Ticks :
       (~At(t, "idle") /\ exec'[t].pc = "idle" /\ FailedInside(t))
         => /\ exec'[t] = IdleExec
            /\ totalErrors' > totalErrors \/ totalErrors = ErrorCap]_vars

\* The statuses from which no automatic transition leaves.
TerminalStatuses == {"sent", "failed", "cancelled"}

\* C21: once the stored status of a row is sent, failed or cancelled, no
\* step of any run changes it, whether runs overlap or not.
C21_TerminalAbsorbing ==
  [][\A i \in Ids :
       queue[i].status \in TerminalStatuses => queue'[i].status = queue[i].status]_vars

\* C22: checkCreditsBalance always returns, and never by an exception; the
\* answer is hasEnough = false when the companyId is missing, null or the
\* text 'undefined', when the lookup gave an error and when it threw;
\* otherwise hasEnough says whether the stored balance, a missing one taken
\* as 0, is at least the amount asked for.
C22_FailsClosed ==
  /\ credits.pc \in {"validate", "lookup", "compare", "catch", "done"}
  /\ credits.pc = "done" =>
       /\ ~credits.threw
       /\ credits.companyId \in {"missing", "null", "undefined_text"} => ~credits.hasEnough
       /\ credits.lookup \in {"error", "throws"} => ~credits.hasEnough
       /\ credits.lookup = "row" =>
            (credits.hasEnough <=> credits.balance >= credits.required)

\* The lookup gave a balance equal to the amount asked for, and the answer
\* is that it is enough.
C22_Witness ==
  /\ credits.pc = "done"
  /\ credits.lookup = "row"
  /\ credits.balance = credits.required
  /\ credits.hasEnough

\* C23: when a strategy of the generation failed and the call ends with the
\* substituted template, the strategies after the failed one were tried in
\* their order before the template was taken: the stateless chat
\* completion, the last of them, was attempted.
C23_CascadeBeforeTemplate ==
  (/\ gen.pc = "done"
   /\ "notifyOpenAIError" \in Events
   /\ gen.result # <<"ai">>)
    => "completion" \in Events

\* The runs of executeFollowUps that are in progress.
Running == {t \in Ticks : ~At(t, "idle")}

\* C24: runs do not overlap: while a run is pulling, detecting or working
\* through its list, no other run is in progress.
C24_TicksDoNotOverlap == Cardinality(Running) <= 1

\* rule?.conditions?.exclude_business_hours of the rule of the item of run t
ExcludesBusinessHours(t) ==
  \E k \in 1..Len(followUpRules) :
    followUpRules[k].id = Item(t).rule /\ followUpRules[k].exclude_business_hours

\* C25: the guards match in the stated order.  In particular the attempts
\* guard comes before every guard on the conversation, so a call never gets
\* to cancel an item whose stored attempts have reached max_attempts; and the
\* business-hours guard comes before the credit guard, so a call never gets
\* to fail an item for its credits while the company is outside the
\* business hours that the item's rule excludes.
C25_GuardOrder ==
  \A t \in Ticks :
    /\ At(t, "cancel") => ~MaxAttemptsReached(Row(t), Item(t))
    /\ At(t, "nocredits") => ~(ExcludesBusinessHours(t) /\ ~inBusinessHours)

\* C26: the cancellation of a pending item whose conversation has an agent,
\* assigned_to set and ai_enabled = false records the reason
\* assigned_to_human on the row and returns it.
C26_AssignedToHuman ==
  [][\A t \in Ticks :
       (/\ At(t, "cancel")
        /\ exec[t].conversation.ai_agent_id
        /\ exec[t].conversation.assigned_to
        /\ ~exec[t].conversation.ai_enabled
        /\ exec'[t] # exec[t])
         => /\ queue'[Item(t).id].status = "cancelled"
            /\ queue'[Item(t).id].reason = "assigned_to_human"
            /\ exec'[t].ret.reason = "assigned_to_human"]_vars

\* C27: a message is handed to the gateway only under the name of a
\* connected instance of the item's company; a call that found none is on
\* its failure path, having sent nothing.
C27_NoSendWithoutInstance ==
  \A t \in Ticks :
    /\ At(t, "send") => exec[t].instance = "connected"
    /\ exec[t].error = "instance" => ~exec[t].sent /\ exec[t].pc \in {"catch", "finally"}

\* C28: the queue write that follows a send the gateway accepted makes the
\* row sent, with one more attempt than the row had stored, executed_at set
\* and the text that was sent stored as the generated message; the insert
\* of the message record that follows leaves the row as it is, failing or
\* not, and the call returns success.
C28_SentWrite ==
  [][\A t \in Ticks :
       /\ (At(t, "marksent") /\ exec'[t].pc = "record")
            => LET i == Item(t).id IN
                 /\ exec[t].sent
                 /\ queue'[i].status = "sent"
                 /\ queue'[i].attempts = queue[i].attempts + 1
                 /\ queue'[i].executed
                 /\ queue'[i].ai_generated_message = exec[t].finalMessage
                 /\ \A j \in Ids \ {i} : queue'[j] = queue[j]
       /\ (At(t, "record") /\ exec'[t] # exec[t])
            => /\ queue' = queue
               /\ exec'[t].pc = "finally"
               /\ exec'[t].ret.success
               /\ ~exec'[t].ret.skipped /\ ~exec'[t].ret.deferred]_vars

\* The call of run t is at a guard that ends it, or has ended by one: the
\* skip after a status change, a cancellation, a deferral, the max-attempts
\* failure or the insufficient-credits failure.
GuardOutcome(t) ==
  \/ exec[t].pc \in {"cancel", "maxfail", "nocredits", "defer", "deferhours"}
  \/ exec[t].ret.skipped
  \/ exec[t].ret.deferred
  \/ exec[t].ret.reason = "Max attempts reached"
  \/ exec[t].error = "credits"

\* C29: a call that a guard ends has not called the message generation
\* (the LLM provider and the debit lie inside it) and has handed nothing to
\* the gateway, and the gateway has accepted nothing for its item
\* meanwhile.
C29_NoPaidWorkBeforeGuards ==
  /\ [](\A t \in Ticks : GuardOutcome(t) => ~exec[t].generated /\ ~exec[t].sent)
  /\ [][\A t \in Ticks :
          (GuardOutcome(t)' /\ exec'[t] # exec[t]) => accepted' = accepted]_vars

\* A call was ended by the business-hours guard: the call is
\* about to write its log, having deferred its item.
C29_Witness ==
  \E t \in Ticks : At(t, "finally") /\ exec[t].ret.deferred /\ ~exec[t].generated

\* C30: the conversation has at most one thread at the provider, and once
\* it has one, every call that returns a thread returns that one.
C30_OneThreadPerConversation ==
  /\ threads.created <= 1
  /\ \A t \in Ticks : threads.call[t].ret \in {0, 1}

\* C31: a call of executeOpenAIRun or executeOpenAIRunWithModel polls the
\* status at most 30 times and then returns: success only when the status
\* became completed, no success at once when a poll reads failed, no success
\* after the 30th poll for any other status; every rejection of a request is
\* caught and returned as no success, so the call always ends in a return.
C31_RunTerminates ==
  /\ [](/\ run.attempts <= maxAttempts
        /\ run.pc \in {"post", "loop", "catch", "done"}
        /\ (run.pc = "done" /\ run.success) => run.status = "completed"
        /\ (run.pc = "done" /\ run.status # "completed") => ~run.success
        /\ (run.pc = "loop" /\ run.attempts = maxAttempts /\ run.status # "completed")
             => ENABLED RunSettle)
  /\ [][(run.pc = "loop" /\ run'.status = "failed" /\ run'.attempts = run.attempts + 1)
          => (run'.pc = "done" /\ ~run'.success)]_vars
  /\ [][(run.pc = "catch") => (run'.pc = "done" /\ ~run'.success)]_vars
  /\ <>(run.pc = "done")

\* A run that stayed queued through all 30 polls was given up.
C31_Witness ==
  /\ run.pc = "done"
  /\ run.attempts = maxAttempts
  /\ run.status = "queued"
  /\ ~run.success
  /\ run.error = "timeout"

\* The call of processFollowUp by tick t returns to the loop in this step.
ResultPushed(t) == At(t, "finally") /\ ~exec[t].escaped /\ exec'[t].pc = "next"

\* The call of tick t sent its item's message and wrote its row as sent.
MovedToSent(t) == exec[t].sent /\ Row(t).status = "sent"

\* C32: a completed tick adds to stats.totalFollowUpsSent exactly the number
\* of its items that were moved to sent (a skipped or cancelled item counts
\* neither as sent nor as an error), and to stats.totalErrors exactly the
\* number of its items whose call returned success = false.
C32_TotalsGrowByTickCounts ==
  /\ [][\A t \in Ticks : ResultPushed(t) =>
          /\ exec'[t].successful = exec[t].successful + (IF MovedToSent(t) THEN 1 ELSE 0)
          /\ exec'[t].failed = exec[t].failed + (IF exec[t].ret.success THEN 0 ELSE 1)
          /\ exec[t].ret.skipped => (exec'[t].successful = exec[t].successful
                                     /\ exec'[t].failed = exec[t].failed)]_vars
  /\ [][\A t \in Ticks : (At(t, "next") /\ exec'[t].pc = "idle") =>
          /\ totalFollowUpsSent' = Min(totalFollowUpsSent + exec[t].successful, MaxSentTotal)
          /\ totalErrors' = Min(totalErrors + exec[t].failed, ErrorCap)]_vars

\* The personalization of the reminder failed: it threw or returned nothing.
PersonalizationFailed(r) == r.outcome \in {"throws", "nothing"}

Words(text) == {text[k] : k \in 1..Len(text)}

\* C34: the text that the generation function returns when it got no text
\* from the provider contains no {nome} placeholder, whatever the template,
\* and the text of a reminder after its substitutions contains no {data} and
\* no {horario} placeholder.
C34_NoPlaceholderRemains ==
  /\ (gen.pc = "done" /\ gen.result # <<"ai">>) => "{nome}" \notin Words(gen.result)
  /\ (reminder # NoReminder /\ reminder.pc = "personalize")
       => Words(reminder.finalMessage) \cap {"{data}", "{horario}"} = {}

\* C35: a call of processOpenAICreditsUsage always ends in a return, and it
\* returns true exactly when consume_credits answered true without error:
\* neither a balance read that fails nor a drift between the two balances
\* changes what is returned.
C35_ReturnIsLedgerResult ==
  /\ creditsUsage.pc \in {"none", "before", "consume", "after", "catch", "done"}
  /\ creditsUsage.pc = "done" => (creditsUsage.ret = (creditsUsage.ledger = "true"))

\* C36: with one run at a time, once the gateway has accepted a message for
\* an item no later step sends a message for that item again, also when the
\* write that marks the item sent failed after the send.
C36_NoResendAfterAccept ==
  [][\A i \in 1..MaxRows : accepted[i] >= 1 => accepted'[i] = accepted[i]]_vars

\* The call of tick t passed the guards (it went on to the generation) and
\* ends in this step.
PassedGuardsAndEnds(t) ==
  /\ exec[t].generated
  /\ exec[t].pc \in {"send", "marksent", "record", "catch"}
  /\ exec'[t].pc = "finally"

\* C37: with one run at a time, an item is exhausted by max_attempts
\* executions that pass the guards: each such execution leaves the item in a
\* terminal status or with one more attempt counted.
C37_ExhaustedByMaxAttempts ==
  [][\A t \in Ticks : PassedGuardsAndEnds(t) =>
       \/ Row(t)'.status \in TerminalStatuses
       \/ Row(t)'.attempts = Row(t).attempts + 1]_vars

\* Row i is pending, due, and its conversation has an agent, AI enabled and
\* no pause.
DueAndValid(i) ==
  /\ pending.rows[i].status = "pending"
  /\ pending.rows[i].scheduled_at <= now
  /\ pending.rows[i].conversations = ValidConversation

\* C38: every row that is pending, due and valid is eventually returned by
\* getPendingFollowUps on some tick, also when rows of paused conversations
\* with an earlier scheduled_at are due: the rows that the pause filter
\* drops do not occupy the limit forever.
C38_ValidItemEventuallyReturned ==
  \A i \in 1..MaxPendingRows :
    [](i \in DOMAIN pending.rows /\ DueAndValid(i) => <>(i \in pending.returned))

\* The rows of rule r that orphan detection created.
OrphansFor(r) == {i \in RowsFor(r) : queue[i].created_by = "orphan_sync"}

\* C39: for every (conversation, rule) pair, orphan detection creates at
\* most one row of the queue, also when two runs of the detection overlap
\* and when the existence check finds more than one row.
C39_OneOrphanPerRule == \A r \in RuleIds : Cardinality(OrphansFor(r)) <= 1

====
